---- MODULE Spec2Model ----
(***************************************************************************)
(* A model of the tmx tilemap library: the layer containers (Map and       *)
(* GroupLayer) with their intrusive doubly linked list, global tile id     *)
(* resolution, tile lookup, chunk addressing and the CSV tile-data codec.  *)
(***************************************************************************)
EXTENDS Integers, Sequences, FiniteSets, TLC

\* ------------------------------------------------------------------------
\* Bounds of the model
\* ------------------------------------------------------------------------

\* Number of layer values that decoders construct and hand to AddLayer.
NLayers == 5

\* Longest tileset list of a map.
MaxTilesets == 4

\* Longest tile array written as CSV text, and longest hand-written CSV text.
MaxTiles == 3
MaxText == 4

\* Largest width and height of a finite tile layer, and of a grid of chunks.
MaxDim == 2
MaxGrid == 2

\* Longest tile array written as Base64 words, and the widest decompressor window.
MaxWords == 2
MaxWindow == 16

\* Most flagged attributes one object document carries.
MaxAttrs == 2

\* Longest file contents scanned for a format.
MaxContent == 3

\* How many distinct pointers are handed to the cache, and how many loads are made.
MaxPointers == 2
MaxLoads == 4
MaxPasses == 3

\* ------------------------------------------------------------------------
\* Layer tree: state
\* ------------------------------------------------------------------------

VARIABLES
    head,          \* container.head, per container
    tail,          \* container.tail, per container
    TileLayers,    \* container.TileLayers, per container
    ImageLayers,   \* container.ImageLayers, per container
    ObjectLayers,  \* container.ObjectLayers, per container
    GroupLayers,   \* container.GroupLayers, per container
    next,          \* baseLayer.next, per layer
    prev,          \* baseLayer.prev, per layer
    parent,        \* baseLayer.parent (*Map), per layer
    container,     \* baseLayer.container, per layer
    added          \* history: the layers handed to AddLayer, per container, in call order

layerVars == <<head, tail, TileLayers, ImageLayers, ObjectLayers, GroupLayers,
               next, prev, parent, container, added>>

\* ------------------------------------------------------------------------
\* Tilesets, tile layer and tile data: state
\* ------------------------------------------------------------------------

VARIABLES
    Tilesets,      \* Map.Tilesets: each entry its FirstGID and its Tileset's Tiles (their IDs)
    Width,         \* TileLayer.Width (baseLayer.Rect)
    Height,        \* TileLayer.Height (baseLayer.Rect)
    Encoding,      \* TileData.Encoding
    Compression,   \* TileData.Compression
    window,        \* the most bytes one Read of a decompressor hands out
    Chunks,        \* TileData.Chunks: each chunk's Rect
    Tiles,         \* TileData.Tiles
    tileData,      \* TileData.tileData, the raw text payload
    ChunkSize,     \* TileLayer.ChunkSize
    chunkSz,       \* TileLayer.chunkSz
    chunkCols,     \* TileLayer.chunkCols
    chunkRows,     \* TileLayer.chunkRows
    pc,            \* where the decode of the tile layer stands
    ret,           \* the last call made on the decoded values, with what it returned
    orig           \* history: the tile array the payload was written from

tileVars == <<Tilesets, Width, Height, Encoding, Compression, window, Chunks, Tiles, tileData,
              ChunkSize, chunkSz, chunkCols, chunkRows, pc, ret, orig>>

\* The tile state other than the position and the last call.
tileState == <<Tilesets, Width, Height, Encoding, Compression, window, Chunks, Tiles,
               tileData, ChunkSize, chunkSz, chunkCols, chunkRows, orig>>

\* ------------------------------------------------------------------------
\* Objects and templates: state
\* ------------------------------------------------------------------------

VARIABLES
    obj,           \* the Object being decoded: its fields, flags, and the address of its Text
    tmpl,          \* the Template's Object (Template.Object), Nil before it is opened
    dup,           \* the Object returned by Clone, Nil before the call
    texts,         \* the heap of Text values, by address
    docs           \* history: the documents of the object and of its template

objectVars == <<obj, tmpl, dup, texts, docs>>

\* ------------------------------------------------------------------------
\* Decoders and lookups called on their own: state
\* ------------------------------------------------------------------------

VARIABLES
    input          \* the argument of the call: a token stream, a path, a text

\* ------------------------------------------------------------------------
\* Cache and files: state
\* ------------------------------------------------------------------------

VARIABLES
    tilesets,      \* Cache.tilesets: key to *Tileset
    templates,     \* Cache.templates: key to *Template
    files,         \* the file system: for each absolute path, whether its file decodes
    allocated,     \* how many instances the loads have allocated
    decodes,       \* history: how many times the file of each path was decoded, per kind
    IncludePaths,  \* the global IncludePaths
    active         \* the loads that have not returned, outermost first

pathVars == <<IncludePaths, active>>

cacheVars == <<tilesets, templates, files, allocated, decodes, pathVars>>

restVars == <<objectVars, input, cacheVars>>

vars == <<layerVars, tileVars, restVars>>

\* The nil pointer / nil interface value.
Nil == 0 - 1

\* The one Map of the model; it is also the identity of its embedded container.
TheMap == 0

\* The layer values of the model.
Layers == 1 .. NLayers

\* The dynamic type of each layer value, as the type switch of AddLayer sees it.
LayerKind(l) ==
    CASE l % 5 = 1 -> "group"
      [] l % 5 = 2 -> "tile"
      [] l % 5 = 3 -> "group"
      [] l % 5 = 4 -> "object"
      [] OTHER     -> "image"

Groups == {l \in Layers : LayerKind(l) = "group"}

\* Everything that embeds a container: the Map and every GroupLayer.
Containers == {TheMap} \cup Groups

\* ------------------------------------------------------------------------
\* Layer tree: operations
\* ------------------------------------------------------------------------

\* container.Len (Len is taken by Sequences): the sum of the four typed partitions.
ContainerLen(c) ==
    Len(TileLayers[c]) + Len(ImageLayers[c]) + Len(ObjectLayers[c]) + Len(GroupLayers[c])

\* baseLayer.Map: the parent field.
Map(l) == parent[l]

\* baseLayer.Container: the container field when set, else the parent Map.
Container(l) == IF container[l] # Nil THEN container[l] ELSE parent[l]

\* A slip of container.AddLayer: the old tail's next link is not set.
containerAddLayerNoNext(c, layer) ==
    /\ TileLayers' = IF LayerKind(layer) = "tile"
                     THEN [TileLayers EXCEPT ![c] = Append(@, layer)] ELSE TileLayers
    /\ ImageLayers' = IF LayerKind(layer) = "image"
                      THEN [ImageLayers EXCEPT ![c] = Append(@, layer)] ELSE ImageLayers
    /\ ObjectLayers' = IF LayerKind(layer) = "object"
                       THEN [ObjectLayers EXCEPT ![c] = Append(@, layer)] ELSE ObjectLayers
    /\ GroupLayers' = IF LayerKind(layer) = "group"
                      THEN [GroupLayers EXCEPT ![c] = Append(@, layer)] ELSE GroupLayers
    /\ head' = IF head[c] = Nil THEN [head EXCEPT ![c] = layer] ELSE head
    /\ next' = next
    /\ prev' = IF tail[c] # Nil THEN [prev EXCEPT ![layer] = tail[c]] ELSE prev
    /\ tail' = [tail EXCEPT ![c] = layer]
    /\ container' = [container EXCEPT ![head'[c]] = c]

\* A slip of container.AddLayer: the new layer's prev link is not set.
containerAddLayerNoPrev(c, layer) ==
    /\ TileLayers' = IF LayerKind(layer) = "tile"
                     THEN [TileLayers EXCEPT ![c] = Append(@, layer)] ELSE TileLayers
    /\ ImageLayers' = IF LayerKind(layer) = "image"
                      THEN [ImageLayers EXCEPT ![c] = Append(@, layer)] ELSE ImageLayers
    /\ ObjectLayers' = IF LayerKind(layer) = "object"
                       THEN [ObjectLayers EXCEPT ![c] = Append(@, layer)] ELSE ObjectLayers
    /\ GroupLayers' = IF LayerKind(layer) = "group"
                      THEN [GroupLayers EXCEPT ![c] = Append(@, layer)] ELSE GroupLayers
    /\ head' = IF head[c] = Nil THEN [head EXCEPT ![c] = layer] ELSE head
    /\ next' = IF tail[c] # Nil THEN [next EXCEPT ![tail[c]] = layer] ELSE next
    /\ prev' = prev
    /\ tail' = [tail EXCEPT ![c] = layer]
    /\ container' = [container EXCEPT ![head'[c]] = c]

\* container.AddLayer: append to the partition of the layer's dynamic type, set
\* head on the first insertion, splice at the tail, then head.setContainer(c).
containerAddLayer(c, layer) ==
    /\ TileLayers' = IF LayerKind(layer) = "tile"
                     THEN [TileLayers EXCEPT ![c] = Append(@, layer)] ELSE TileLayers
    /\ ImageLayers' = IF LayerKind(layer) = "image"
                      THEN [ImageLayers EXCEPT ![c] = Append(@, layer)] ELSE ImageLayers
    /\ ObjectLayers' = IF LayerKind(layer) = "object"
                       THEN [ObjectLayers EXCEPT ![c] = Append(@, layer)] ELSE ObjectLayers
    /\ GroupLayers' = IF LayerKind(layer) = "group"
                      THEN [GroupLayers EXCEPT ![c] = Append(@, layer)] ELSE GroupLayers
    /\ head' = IF head[c] = Nil THEN [head EXCEPT ![c] = layer] ELSE head
    /\ next' = IF tail[c] # Nil THEN [next EXCEPT ![tail[c]] = layer] ELSE next
    /\ prev' = IF tail[c] # Nil THEN [prev EXCEPT ![layer] = tail[c]] ELSE prev
    /\ tail' = [tail EXCEPT ![c] = layer]
    /\ container' = [container EXCEPT ![head'[c]] = c]

\* Map.AddLayer: the embedded container's AddLayer, then head.setParent(m).
MapAddLayer(layer) ==
    /\ containerAddLayer(TheMap, layer)
    /\ parent' = [parent EXCEPT ![head'[TheMap]] = TheMap]
    /\ added' = [added EXCEPT ![TheMap] = Append(@, layer)]

\* GroupLayer.AddLayer: the same bookkeeping on the group's own container,
\* then head.setParent(g.parent) and head.setContainer(g).
GroupLayerAddLayer(g, layer) ==
    /\ TileLayers' = IF LayerKind(layer) = "tile"
                     THEN [TileLayers EXCEPT ![g] = Append(@, layer)] ELSE TileLayers
    /\ ImageLayers' = IF LayerKind(layer) = "image"
                      THEN [ImageLayers EXCEPT ![g] = Append(@, layer)] ELSE ImageLayers
    /\ ObjectLayers' = IF LayerKind(layer) = "object"
                       THEN [ObjectLayers EXCEPT ![g] = Append(@, layer)] ELSE ObjectLayers
    /\ GroupLayers' = IF LayerKind(layer) = "group"
                      THEN [GroupLayers EXCEPT ![g] = Append(@, layer)] ELSE GroupLayers
    /\ head' = IF head[g] = Nil THEN [head EXCEPT ![g] = layer] ELSE head
    /\ next' = IF tail[g] # Nil THEN [next EXCEPT ![tail[g]] = layer] ELSE next
    /\ prev' = IF tail[g] # Nil THEN [prev EXCEPT ![layer] = tail[g]] ELSE prev
    /\ tail' = [tail EXCEPT ![g] = layer]
    /\ parent' = [parent EXCEPT ![head'[g]] = parent[g]]
    /\ container' = [container EXCEPT ![head'[g]] = g]
    /\ added' = [added EXCEPT ![g] = Append(@, layer)]

\* ------------------------------------------------------------------------
\* Layer tree: the callers of AddLayer
\* ------------------------------------------------------------------------

\* The members of a container, by its four typed partitions.
Range(s) == {s[i] : i \in DOMAIN s}

Members(c) ==
    Range(TileLayers[c]) \cup Range(ImageLayers[c])
        \cup Range(ObjectLayers[c]) \cup Range(GroupLayers[c])

\* The container a layer was added to, Nil when it is in none.
Owner(l) ==
    IF \E c \in Containers : l \in Members(c)
    THEN CHOOSE c \in Containers : l \in Members(c)
    ELSE Nil

\* The chain of containers around a container, innermost first.
RECURSIVE Enclosing(_, _)
Enclosing(c, fuel) ==
    IF c = Nil \/ c = TheMap \/ fuel = 0 THEN {}
    ELSE {Owner(c)} \cup Enclosing(Owner(c), fuel - 1)

\* Every call site hands AddLayer a layer value it has just decoded: one that
\* is in no container yet, and that does not enclose the receiving group.
Fresh(c) ==
    {l \in Layers : Owner(l) = Nil /\ l # c /\ l \notin Enclosing(c, NLayers)}

\* No call has been made yet.
NoCall == [op |-> "none"]

\* The zero Size value.
ZeroSize == [Width |-> 0, Height |-> 0]

\* The tile layer state of a run that decodes no tile layer.
IdleTiles ==
    /\ Compression = "none"
    /\ window = 0
    /\ Tilesets = <<>>
    /\ Width = 0
    /\ Height = 0
    /\ Encoding = "none"
    /\ Chunks = <<>>
    /\ Tiles = <<>>
    /\ tileData = <<>>
    /\ ChunkSize = ZeroSize
    /\ chunkSz = ZeroSize
    /\ chunkCols = 0
    /\ chunkRows = 0
    /\ pc = "idle"
    /\ ret = NoCall
    /\ orig = <<>>

\* No object is being decoded.
IdleObjects ==
    /\ obj = Nil
    /\ tmpl = Nil
    /\ dup = Nil
    /\ texts = <<>>
    /\ docs = Nil

\* NewCache() and no load made.
IdleCache ==
    /\ tilesets = <<>>
    /\ templates = <<>>
    /\ files = <<>>
    /\ allocated = 0
    /\ decodes = <<>>
    /\ IncludePaths = <<>>
    /\ active = <<>>

IdleRest == IdleObjects /\ input = Nil /\ IdleCache

\* Map.UnmarshalXML / Map.UnmarshalJSON: m.AddLayer(&layer).
DecodeMapLayer ==
    /\ \E layer \in Fresh(TheMap) : MapAddLayer(layer)
    /\ UNCHANGED <<tileVars, restVars>>

\* GroupLayer.UnmarshalXML / jsonLayer.toLayer: group.AddLayer(child); the JSON
\* path fills a group before the group itself is added, the XML path after.
DecodeGroupLayer ==
    /\ \E g \in Groups : \E layer \in Fresh(g) : GroupLayerAddLayer(g, layer)
    /\ UNCHANGED <<tileVars, restVars>>

InitLayers ==
    /\ head = [c \in Containers |-> Nil]
    /\ tail = [c \in Containers |-> Nil]
    /\ TileLayers = [c \in Containers |-> <<>>]
    /\ ImageLayers = [c \in Containers |-> <<>>]
    /\ ObjectLayers = [c \in Containers |-> <<>>]
    /\ GroupLayers = [c \in Containers |-> <<>>]
    /\ next = [l \in Layers |-> Nil]
    /\ prev = [l \in Layers |-> Nil]
    /\ parent = [l \in Layers |-> Nil]
    /\ container = [l \in Layers |-> Nil]
    /\ added = [c \in Containers |-> <<>>]

Init == InitLayers /\ IdleTiles /\ IdleRest

Next == DecodeMapLayer \/ DecodeGroupLayer

Spec == Init /\ [][Next]_vars

\* ------------------------------------------------------------------------
\* Layer tree: properties
\* ------------------------------------------------------------------------

\* for layer = c.Head(); layer != nil; layer = layer.Next(): the layers visited.
RECURSIVE Walk(_, _)
Walk(l, fuel) ==
    IF l = Nil \/ fuel = 0 THEN <<>> ELSE <<l>> \o Walk(next[l], fuel - 1)

\* for layer = c.Tail(); layer != nil; layer = layer.Prev(): the layers visited.
RECURSIVE WalkBack(_, _)
WalkBack(l, fuel) ==
    IF l = Nil \/ fuel = 0 THEN <<>> ELSE <<l>> \o WalkBack(prev[l], fuel - 1)

Reverse(s) == [i \in 1 .. Len(s) |-> s[Len(s) + 1 - i]]

Distinct(s) == Cardinality(Range(s)) = Len(s)

C2_ListIsConsistent ==
    \A c \in Containers :
        Distinct(added[c]) =>
            /\ (head[c] = Nil) <=> (ContainerLen(c) = 0)
            /\ (tail[c] = Nil) <=> (ContainerLen(c) = 0)
            /\ head[c] # Nil => prev[head[c]] = Nil
            /\ tail[c] # Nil => next[tail[c]] = Nil
            /\ \A a, b \in Members(c) : (next[a] = b) <=> (prev[b] = a)
            /\ Walk(head[c], NLayers + 1) = added[c]
            /\ WalkBack(tail[c], NLayers + 1) = Reverse(added[c])

\* A group layer that holds three layers, nested in the map next to another layer.
C2_Witness ==
    \E g \in Groups :
        /\ Len(added[g]) >= 3
        /\ g \in Members(TheMap)
        /\ Len(added[TheMap]) >= 2

\* C3: after any sequence of AddLayer calls on a Map m, every layer in m's
\* linked list, the head and every later one, has Container() = m and Map() = m.
C3_EveryLayerKnowsItsMap ==
    \A i \in DOMAIN Walk(head[TheMap], NLayers + 1) :
        LET l == Walk(head[TheMap], NLayers + 1)[i]
        IN  Container(l) = TheMap /\ Map(l) = TheMap

\* C4: every child of a GroupLayer g nested at any depth in the Map m has
\* Container() = g and Map() = m, whether the children were added to g before
\* or after g was added to its own parent.
C4_GroupChildrenKnowGroupAndMap ==
    \A g \in Groups :
        TheMap \in Enclosing(g, NLayers) =>
            \A l \in Members(g) : Container(l) = g /\ Map(l) = TheMap

\* ------------------------------------------------------------------------
\* TileID: a 32-bit unsigned word, kept as two 16-bit halves
\* ------------------------------------------------------------------------

\* The radix of one half of a TileID: h is the high 16 bits, l the low 16 bits.
Half == 65536

TileID(h, l) == [h |-> h, l |-> l]

\* The TileID of a small non-negative integer.
U32(n) == [h |-> n \div Half, l |-> n % Half]

Zero == U32(0)

RECURSIVE BitAnd(_, _)
BitAnd(a, b) ==
    IF a = 0 \/ b = 0 THEN 0
    ELSE (a % 2) * (b % 2) + 2 * BitAnd(a \div 2, b \div 2)

\* a & b, a | b, ^a on uint32.
And(a, b) == [h |-> BitAnd(a.h, b.h), l |-> BitAnd(a.l, b.l)]
Or(a, b) ==
    [h |-> a.h + b.h - BitAnd(a.h, b.h), l |-> a.l + b.l - BitAnd(a.l, b.l)]
Not(a) == [h |-> Half - 1 - a.h, l |-> Half - 1 - a.l]

\* a <= b and a - b (modulo 2^32) on uint32.
Leq(a, b) == a.h < b.h \/ (a.h = b.h /\ a.l <= b.l)
Sub(a, b) ==
    LET borrow == IF a.l < b.l THEN 1 ELSE 0
    IN  [h |-> (a.h - b.h - borrow + Half) % Half, l |-> (a.l - b.l + Half) % Half]

\* The flip/rotate flags and the mask that clears them.
FlipH == TileID(32768, 0)
FlipV == TileID(16384, 0)
FlipD == TileID(8192, 0)
RotateCCW == TileID(4096, 0)
\* A mask that leaves the RotateCCW bit in place.
ClearMaskKeepsRotate == Not(Or(Or(FlipH, FlipV), FlipD))
ClearMask == Not(Or(Or(Or(FlipH, FlipV), FlipD), RotateCCW))
InvalidID == TileID(Half - 1, Half - 1)

\* ------------------------------------------------------------------------
\* Global tile id resolution
\* ------------------------------------------------------------------------

\* The loop of Map.Tileset: from index i down to the first entry, the first
\* tileset whose FirstGID <= clean, with clean - FirstGID; (nil, 0) when none.
\* A tileset is named by its place in Map.Tilesets, nil by 0.
RECURSIVE scanTilesets(_, _)
scanTilesets(i, clean) ==
    IF i = 0 THEN [ts |-> 0, id |-> Zero]
    ELSE IF Leq(Tilesets[i].FirstGID, clean)
         THEN [ts |-> i, id |-> Sub(clean, Tilesets[i].FirstGID)]
         ELSE scanTilesets(i - 1, clean)

\* A slip of Map.Tileset: the flags are not cleared from gid.
TilesetUnmasked(gid) ==
    IF gid # Zero THEN scanTilesets(Len(Tilesets), gid)
    ELSE [ts |-> 0, id |-> Zero]

\* Map.Tileset.
Tileset(gid) ==
    LET clean == And(gid, ClearMask)
    IN  IF clean # Zero THEN scanTilesets(Len(Tilesets), clean)
        ELSE [ts |-> 0, id |-> Zero]

\* The integer of a TileID below 2^31.
AsInt(t) == t.h * Half + t.l

\* The tile list of a tileset with n tiles: local IDs 0 .. n-1, in order.
DenseTiles(n) == [i \in 1 .. n |-> i - 1]

\* The FirstGID values of the documents read, and the tile indexes and flag
\* combinations of the global ids resolved against them.
FirstGIDValues == {1, 50, 120}
GidIndexes == {0, 1, 49, 50, 75, 119, 120, 121, 268435455}
GidFlags == {Zero, FlipH, Or(FlipV, FlipD), RotateCCW,
             Or(Or(Or(FlipH, FlipV), FlipD), RotateCCW)}
GidInputs == {Or(f, U32(n)) : f \in GidFlags, n \in GidIndexes}

\* Map.Tilesets as the decoder leaves it for a well-formed document: the
\* entries in ascending FirstGID order.
TilesetLists ==
    {s \in UNION {[1 .. n -> FirstGIDValues] : n \in 0 .. MaxTilesets} :
        \A i, j \in DOMAIN s : i < j => s[i] <= s[j]}

InitTileset ==
    /\ \E s \in TilesetLists :
        Tilesets = [i \in DOMAIN s |-> [FirstGID |-> U32(s[i]), Tiles |-> <<>>]]
    /\ Width = 0
    /\ Height = 0
    /\ Encoding = "none"
    /\ Chunks = <<>>
    /\ Tiles = <<>>
    /\ tileData = <<>>
    /\ ChunkSize = ZeroSize
    /\ chunkSz = ZeroSize
    /\ chunkCols = 0
    /\ chunkRows = 0
    /\ pc = "map"
    /\ ret = NoCall
    /\ orig = <<>>
    /\ Compression = "none"
    /\ window = 0
    /\ InitLayers
    /\ IdleRest

\* A caller resolves a global tile id: m.Tileset(gid).
CallTileset ==
    /\ pc = "map"
    /\ \E gid \in GidInputs :
        LET r == Tileset(gid)
        IN  ret' = [op |-> "Tileset", gid |-> gid, ts |-> r.ts, id |-> r.id]
    /\ UNCHANGED <<restVars, layerVars, Tilesets, Width, Height, Encoding, Compression, window, Chunks, Tiles,
                   tileData, ChunkSize, chunkSz, chunkCols, chunkRows, pc, orig>>

NextTileset == CallTileset

SpecTileset == InitTileset /\ [][NextTileset]_vars

\* The index bits of a global id: the word without its top four bits.
IndexBits(gid) == [h |-> gid.h % 4096, l |-> gid.l]

Ascending == \A i, j \in DOMAIN Tilesets :
                i < j => Leq(Tilesets[i].FirstGID, Tilesets[j].FirstGID)

Maximum(S) == CHOOSE x \in S : \A y \in S : y <= x

\* C5: for a tileset list in ascending FirstGID order and c = gid & ClearMask,
\* Map.Tileset(gid) returns (nil, 0) when c = 0 or no tileset has FirstGID <= c,
\* and otherwise the last tileset of the list with FirstGID <= c together with
\* c - FirstGID; FirstGIDs {1, 1, 50, 120} and gid 75 give the FirstGID = 50
\* tileset and local id 25; the flip/rotate bits of gid do not matter.
C5_TilesetResolvesLastMatch ==
    (ret.op = "Tileset" /\ Ascending) =>
        LET c == IndexBits(ret.gid)
            matching == {i \in DOMAIN Tilesets : Leq(Tilesets[i].FirstGID, c)}
        IN  /\ (c = Zero \/ matching = {}) => (ret.ts = 0 /\ ret.id = Zero)
            /\ (c # Zero /\ matching # {}) =>
                /\ ret.ts = Maximum(matching)
                /\ AsInt(ret.id) + AsInt(Tilesets[ret.ts].FirstGID) = AsInt(c)
            /\ ([i \in DOMAIN Tilesets |-> AsInt(Tilesets[i].FirstGID)] = <<1, 1, 50, 120>>
                    /\ c = U32(75)) =>
                (ret.ts = 3 /\ ret.id = U32(25))

\* Global id 75 with the horizontal flip bit set, resolved against the
\* tilesets {1, 1, 50, 120}, gave the third tileset.
C5_Witness ==
    /\ ret.op = "Tileset"
    /\ [i \in DOMAIN Tilesets |-> AsInt(Tilesets[i].FirstGID)] = <<1, 1, 50, 120>>
    /\ ret.gid = Or(FlipH, U32(75))
    /\ ret.ts = 3

\* ------------------------------------------------------------------------
\* Tile data codec: CSV
\* ------------------------------------------------------------------------

\* Text is a sequence of one-character strings.
Digits == <<"0", "1", "2", "3", "4", "5", "6", "7", "8", "9">>

IsDigit(ch) == \E d \in DOMAIN Digits : Digits[d] = ch

DigitValue(ch) == (CHOOSE d \in DOMAIN Digits : Digits[d] = ch) - 1

\* The loop of strconv.ParseUint(s, 10, 32) from character i on, n the value
\* so far: a character that is no digit ends it with (0, syntax error), a value
\* above 2^32 - 1 with (2^32 - 1, range error).
RECURSIVE parseUintFrom(_, _, _)
parseUintFrom(s, i, n) ==
    IF i > Len(s) THEN [val |-> n, err |-> "nil"]
    ELSE IF ~IsDigit(s[i]) THEN [val |-> Zero, err |-> "syntax"]
    ELSE LET low  == n.l * 10 + DigitValue(s[i])
             high == n.h * 10 + (low \div Half)
         IN  IF high >= Half THEN [val |-> InvalidID, err |-> "range"]
             ELSE parseUintFrom(s, i + 1, TileID(high, low % Half))

\* strconv.ParseUint(s, 10, 32): the empty string is a syntax error.
ParseUint(s) ==
    IF s = <<>> THEN [val |-> Zero, err |-> "syntax"] ELSE parseUintFrom(s, 1, Zero)

\* strings.Split(s, ","): the fields between the commas; one empty field for
\* the empty text.
RECURSIVE Split(_)
Split(s) ==
    IF \A i \in DOMAIN s : s[i] # "," THEN <<s>>
    ELSE LET k == CHOOSE i \in DOMAIN s :
                      s[i] = "," /\ \A j \in 1 .. i - 1 : s[j] # ","
         IN  <<SubSeq(s, 1, k - 1)>> \o Split(SubSeq(s, k + 1, Len(s)))

\* The loop of decodeCSV from field i on: when ParseUint reports an error the
\* returned value is stored and the loop goes on; when it reports none the
\* function returns that nil error at once.
RECURSIVE csvLoop(_, _, _)
csvLoop(ids, gids, i) ==
    IF i > Len(ids) THEN [gids |-> gids, err |-> "nil"]
    ELSE LET r == ParseUint(ids[i])
         IN  IF r.err # "nil"
             THEN csvLoop(ids, [gids EXCEPT ![i] = r.val], i + 1)
             ELSE [gids |-> gids, err |-> r.err]

\* decodeCSV(data, gids): the buffer as it is left, and the error returned.
decodeCSV(data, gids) ==
    LET ids == Split(data)
    IN  IF Len(ids) # Len(gids) THEN [gids |-> gids, err |-> "count"]
        ELSE csvLoop(ids, gids, 1)

\* ------------------------------------------------------------------------
\* Base64 payloads: base64, decompression, little-endian words
\* ------------------------------------------------------------------------

\* base64.StdEncoding: the standard alphabet, padded with '='.
Alphabet ==
    <<"A", "B", "C", "D", "E", "F", "G", "H", "I", "J", "K", "L", "M",
      "N", "O", "P", "Q", "R", "S", "T", "U", "V", "W", "X", "Y", "Z",
      "a", "b", "c", "d", "e", "f", "g", "h", "i", "j", "k", "l", "m",
      "n", "o", "p", "q", "r", "s", "t", "u", "v", "w", "x", "y", "z",
      "0", "1", "2", "3", "4", "5", "6", "7", "8", "9", "+", "/">>

\* The six-bit value of a character of the alphabet, Nil for any other.
Sextet(c) ==
    IF \E i \in DOMAIN Alphabet : Alphabet[i] = c
    THEN (CHOOSE i \in DOMAIN Alphabet : Alphabet[i] = c) - 1
    ELSE Nil

CorruptInput == [bytes |-> <<>>, err |-> "base64"]

\* base64.StdEncoding.Decode: four characters give three bytes; the last
\* quantum may be padded to give one or two bytes.
RECURSIVE decodeQuanta(_)
decodeQuanta(s) ==
    IF Len(s) = 0 THEN [bytes |-> <<>>, err |-> "nil"]
    ELSE IF Len(s) < 4 THEN CorruptInput
    ELSE LET a == Sextet(s[1])
             b == Sextet(s[2])
             c == Sextet(s[3])
             d == Sextet(s[4])
             last == Len(s) = 4
         IN  IF a = Nil \/ b = Nil THEN CorruptInput
             ELSE IF last /\ s[3] = "=" /\ s[4] = "="
                  THEN [bytes |-> <<a * 4 + b \div 16>>, err |-> "nil"]
             ELSE IF c = Nil THEN CorruptInput
             ELSE IF last /\ s[4] = "="
                  THEN [bytes |-> <<a * 4 + b \div 16, (b % 16) * 16 + c \div 4>>,
                        err |-> "nil"]
             ELSE IF d = Nil THEN CorruptInput
             ELSE LET rest == decodeQuanta(SubSeq(s, 5, Len(s)))
                  IN  IF rest.err # "nil" THEN CorruptInput
                      ELSE [bytes |-> <<a * 4 + b \div 16,
                                        (b % 16) * 16 + c \div 4,
                                        (c % 4) * 64 + d>> \o rest.bytes,
                            err |-> "nil"]

\* decodeBase64: the decoded bytes, or the decoder's error.
decodeBase64(data) == decodeQuanta(data)

Min(a, b) == IF a < b THEN a ELSE b

\* The first byte of a stream of each compression format.
Magic(comp) ==
    CASE comp = "gzip" -> 31
      [] comp = "zlib" -> 120
      [] OTHER -> 40

\* inflate(src, dst, comp): one Read of the decompressor into dst. The Read
\* hands out what is left of the stream, at most len(dst) bytes and at most
\* the decompressor's window.
inflate(src, dst, comp) ==
    IF comp = "none"
    THEN [dst |-> [i \in DOMAIN dst |-> IF i <= Len(src) THEN src[i] ELSE dst[i]],
          err |-> "nil"]
    ELSE IF comp \notin {"gzip", "zlib", "zstd"} THEN [dst |-> dst, err |-> "enum"]
    ELSE IF Len(src) = 0 \/ src[1] # Magic(comp) THEN [dst |-> dst, err |-> "header"]
    ELSE LET stream == Tail(src)
             n == Min(Min(Len(dst), Len(stream)), window)
         IN  IF n # Len(dst)
             THEN [dst |-> [i \in DOMAIN dst |-> IF i <= n THEN stream[i] ELSE dst[i]],
                   err |-> "short"]
             ELSE [dst |-> SubSeq(stream, 1, n), err |-> "nil"]

\* binary.Read(reader, binary.LittleEndian, gids): io.ReadFull of len(gids)*4
\* bytes, then each four bytes as one little-endian word.
binaryRead(buffer, gids) ==
    LET size == Len(gids) * 4
    IN  IF size = 0 THEN [gids |-> gids, err |-> "nil"]
        ELSE IF Len(buffer) = 0 THEN [gids |-> gids, err |-> "EOF"]
        ELSE IF Len(buffer) < size THEN [gids |-> gids, err |-> "ErrUnexpectedEOF"]
        ELSE [gids |-> [i \in DOMAIN gids |->
                            TileID(buffer[4 * i] * 256 + buffer[4 * i - 1],
                                   buffer[4 * i - 2] * 256 + buffer[4 * i - 3])],
              err |-> "nil"]

\* TileData.decode, the Base64 branch.
decodeWords(raw, gids) ==
    LET decoded == decodeBase64(raw)
    IN  IF decoded.err # "nil" THEN [gids |-> gids, err |-> decoded.err]
        ELSE LET buffer ==
                     IF Compression = "none" THEN [dst |-> decoded.bytes, err |-> "nil"]
                     ELSE inflate(decoded.bytes, [i \in 1 .. Len(gids) * 4 |-> 0],
                                  Compression)
             IN  IF buffer.err # "nil" THEN [gids |-> gids, err |-> buffer.err]
                 ELSE LET r == binaryRead(buffer.dst, gids)
                      IN  IF r.err # "nil" /\ r.err # "EOF" THEN r
                          ELSE [gids |-> r.gids, err |-> "nil"]

\* TileData.decode: CSV goes to decodeCSV, Base64 to the word decoder, any
\* other encoding is an invalid enumeration value.
decode(raw, gids) ==
    IF Encoding = "csv" THEN decodeCSV(raw, gids)
    ELSE IF Encoding # "base64" THEN [gids |-> gids, err |-> "enum"]
    ELSE decodeWords(raw, gids)

\* make([]TileID, n).
MakeTiles(n) == [i \in 1 .. n |-> Zero]

\* ------------------------------------------------------------------------
\* Tile layer: post-processing and lookups
\* ------------------------------------------------------------------------

\* x / y and x % y on Go's int: the quotient truncates toward zero and the
\* remainder takes the sign of x.
Abs(a) == IF a < 0 THEN 0 - a ELSE a
GoDiv(a, b) ==
    IF (a < 0) = (b < 0) THEN Abs(a) \div Abs(b) ELSE 0 - (Abs(a) \div Abs(b))
GoRem(a, b) == IF a < 0 THEN 0 - (Abs(a) % Abs(b)) ELSE a % Abs(b)

\* The chunk loop of TileLayer.processTiles from chunk i on. The loop variable
\* is a copy of the chunk: the payload is decoded into the Tiles slice the copy
\* holds, after the layer's chunk was given a newly allocated one.
RECURSIVE processChunks(_, _)
processChunks(chunks, i) ==
    IF i > Len(chunks) THEN [Chunks |-> chunks, err |-> "nil"]
    ELSE LET chunk == chunks[i]
             area  == chunk.Width * chunk.Height
             made  == [chunks EXCEPT ![i].Tiles = MakeTiles(area)]
         IN  IF Len(chunk.tileData) = 0
             THEN IF Len(chunk.Tiles) # area THEN [Chunks |-> chunks, err |-> "tiles"]
                  ELSE processChunks(chunks, i + 1)
             ELSE IF decode(chunk.tileData, chunk.Tiles).err # "nil"
                  THEN [Chunks |-> made,
                        err |-> decode(chunk.tileData, chunk.Tiles).err]
                  ELSE processChunks([made EXCEPT ![i].tileData = <<>>], i + 1)

\* TileLayer.processTiles: with chunks, each chunk is processed; without,
\* explicit tiles must number Width * Height, else Tiles is allocated and the
\* payload decoded into it, and the payload dropped when the decode reports
\* no error.
processTiles ==
    LET area == Width * Height
    IN  IF Len(Chunks) > 0
        THEN [Chunks |-> processChunks(Chunks, 1).Chunks, Tiles |-> Tiles,
              tileData |-> tileData, err |-> processChunks(Chunks, 1).err]
        ELSE IF Len(Tiles) > 0
        THEN [Chunks |-> Chunks, Tiles |-> Tiles, tileData |-> tileData,
              err |-> IF Len(Tiles) # area THEN "tiles" ELSE "nil"]
        ELSE LET r == decode(tileData, MakeTiles(area))
             IN  [Chunks |-> Chunks, Tiles |-> r.gids,
                  tileData |-> IF r.err = "nil" THEN <<>> ELSE tileData,
                  err |-> r.err]

\* The end of TileLayer.UnmarshalXML: chunk size and chunk grid, taken from
\* the last chunk read.
chunkGrid ==
    LET last == Chunks[Len(Chunks)]
        size == [Width |-> last.X + last.Width, Height |-> last.Y + last.Height]
    IN  [chunkSz |-> [Width |-> last.Width, Height |-> last.Height],
         ChunkSize |-> size,
         chunkCols |-> GoDiv(size.Width, last.Width),
         chunkRows |-> GoDiv(size.Height, last.Height)]

\* What a lookup gives when the Go runtime panics (index out of range,
\* division by zero).
Panic == [chunk |-> 0, x |-> 0, y |-> 0, panic |-> TRUE]

\* TileLayer.ChunkAt: the chunk (its place in Chunks, 0 for nil) and the
\* coordinates local to it.
ChunkAt(x, y) ==
    IF Len(Chunks) = 0 THEN [chunk |-> 0, x |-> 0, y |-> 0, panic |-> FALSE]
    ELSE IF ChunkSize.Width = 0 \/ ChunkSize.Height = 0 THEN Panic
    ELSE LET rx == GoRem(x, ChunkSize.Width)
             ry == GoRem(y, ChunkSize.Height)
             nx == IF rx < 0 THEN rx + ChunkSize.Width ELSE rx
             ny == IF ry < 0 THEN ry + ChunkSize.Height ELSE ry
             i  == GoDiv(nx, ChunkSize.Width) + ((ny * ChunkSize.Height) * chunkCols)
         IN  IF i < 0 \/ i >= Len(Chunks) THEN Panic
             ELSE IF chunkSz.Width = 0 \/ chunkSz.Height = 0 THEN Panic
             ELSE [chunk |-> i + 1, x |-> GoRem(nx, chunkSz.Width),
                   y |-> GoRem(ny, chunkSz.Height), panic |-> FALSE]

\* TileLayer.GetGID: through ChunkAt when the layer has chunks, else 0 outside
\* the layer's bounds and Tiles[x + y*Width] inside.
GetGID(x, y) ==
    IF Len(Chunks) > 0
    THEN LET c == ChunkAt(x, y)
             k == c.x + (c.y * Chunks[c.chunk].Width)
         IN  IF c.panic \/ k >= Len(Chunks[c.chunk].Tiles)
             THEN [gid |-> Zero, panic |-> TRUE]
             ELSE [gid |-> Chunks[c.chunk].Tiles[k + 1], panic |-> FALSE]
    ELSE IF x < 0 \/ x >= Width \/ y < 0 \/ y >= Height
         THEN [gid |-> Zero, panic |-> FALSE]
    ELSE IF x + (y * Width) >= Len(Tiles) THEN [gid |-> Zero, panic |-> TRUE]
    ELSE [gid |-> Tiles[x + (y * Width) + 1], panic |-> FALSE]

\* The nil *Tile.
NilTile == [ts |-> 0, ID |-> Nil]

\* TileLayer.TileAt: for a non-zero gid whose local id is > 0, the tile at that
\* index of the resolved tileset's Tiles, with the gid; else (nil, 0).
TileAt(x, y) ==
    LET g == GetGID(x, y)
        r == Tileset(g.gid)
    IN  IF g.panic THEN [tile |-> NilTile, gid |-> Zero, panic |-> TRUE]
        ELSE IF g.gid # Zero /\ r.id # Zero
        THEN IF r.id.h = 0 /\ r.id.l < Len(Tilesets[r.ts].Tiles)
             THEN [tile |-> [ts |-> r.ts, ID |-> Tilesets[r.ts].Tiles[r.id.l + 1]],
                   gid |-> g.gid, panic |-> FALSE]
             ELSE [tile |-> NilTile, gid |-> Zero, panic |-> TRUE]
        ELSE [tile |-> NilTile, gid |-> Zero, panic |-> FALSE]

\* ------------------------------------------------------------------------
\* Tile data as documents carry it
\* ------------------------------------------------------------------------

\* n / 10 and n % 10 on uint32.
DivTen(n) ==
    [h |-> n.h \div 10, l |-> ((n.h % 10) * Half + n.l) \div 10]
ModTen(n) == ((n.h % 10) * Half + n.l) % 10

\* The decimal text of a tile id, as a writer of CSV tile data prints it.
RECURSIVE FormatUint(_)
FormatUint(n) ==
    IF n.h = 0 /\ n.l < 10 THEN <<Digits[n.l + 1]>>
    ELSE FormatUint(DivTen(n)) \o <<Digits[ModTen(n) + 1]>>

\* The CSV text of a tile array: the ids in decimal, separated by commas.
RECURSIVE EncodeCSV(_)
EncodeCSV(gids) ==
    IF Len(gids) = 0 THEN <<>>
    ELSE IF Len(gids) = 1 THEN FormatUint(gids[1])
    ELSE FormatUint(gids[1]) \o <<",">> \o EncodeCSV(Tail(gids))

\* The tile arrays and the hand-written texts that reach the decoder.
CsvValues == {Zero, U32(1), U32(10), InvalidID}
CsvArrays == UNION {[1 .. n -> CsvValues] : n \in 1 .. MaxTiles}
CsvTexts == UNION {[1 .. n -> {"1", ",", "x"}] : n \in 0 .. MaxText}

\* A CSV payload and the buffer of the expected tile count it is decoded into.
InitCSV ==
    /\ \/ /\ orig \in CsvArrays
          /\ tileData = EncodeCSV(orig)
          /\ pc = "array"
       \/ /\ orig = <<>>
          /\ tileData \in CsvTexts
          /\ pc = "text"
    /\ \E n \in 0 .. MaxTiles + 1 : Tiles = MakeTiles(n)
    /\ Encoding = "csv"
    /\ Tilesets = <<>>
    /\ Width = 0
    /\ Height = 0
    /\ Chunks = <<>>
    /\ ChunkSize = ZeroSize
    /\ chunkSz = ZeroSize
    /\ chunkCols = 0
    /\ chunkRows = 0
    /\ ret = NoCall
    /\ Compression = "none"
    /\ window = 0
    /\ InitLayers
    /\ IdleRest

\* data.decode(raw, gids) on the payload, gids the buffer of expected length.
CallDecode ==
    /\ pc \in {"array", "text"}
    /\ ret = NoCall
    /\ LET r == decode(tileData, Tiles)
       IN  /\ Tiles' = r.gids
           /\ ret' = [op |-> "decode", n |-> Len(Tiles), gids |-> r.gids, err |-> r.err]
    /\ UNCHANGED <<restVars, layerVars, Tilesets, Width, Height, Encoding, Compression, window, Chunks, tileData,
                   ChunkSize, chunkSz, chunkCols, chunkRows, pc, orig>>

NextCSV == CallDecode

SpecCSV == InitCSV /\ [][NextCSV]_vars

\* The number of comma-separated fields of a text.
FieldCount(s) == Cardinality({i \in DOMAIN s : s[i] = ","}) + 1

\* C9: CSV round trip: for every array of N tile ids, decoding its
\* comma-separated decimal text with expected count N returns no error and
\* stores exactly the original array (stated here for N >= 1).
C9_CsvRoundTrip ==
    (pc = "array" /\ ret.op = "decode" /\ ret.n = Len(orig)) =>
        (ret.err = "nil" /\ ret.gids = orig)

\* C10: a CSV payload whose field count differs from the expected tile count
\* is a count-mismatch error that leaves the tile array as it was, and a field
\* that does not parse as an unsigned 32-bit integer makes the decode fail.
C10_CsvRejectsBadPayload ==
    ret.op = "decode" =>
        /\ FieldCount(tileData) # ret.n =>
            (ret.err = "count" /\ ret.gids = MakeTiles(ret.n))
        /\ (/\ FieldCount(tileData) = ret.n
            /\ \E i \in DOMAIN Split(tileData) : ParseUint(Split(tileData)[i]).err # "nil")
                => ret.err # "nil"

\* ------------------------------------------------------------------------
\* Base64 tile data as documents carry it
\* ------------------------------------------------------------------------

\* The four bytes of a tile id, least significant first.
leBytes(t) == <<t.l % 256, t.l \div 256, t.h % 256, t.h \div 256>>

\* A tile array as little-endian 32-bit words.
RECURSIVE littleEndian(_)
littleEndian(gids) ==
    IF Len(gids) = 0 THEN <<>> ELSE leBytes(Head(gids)) \o littleEndian(Tail(gids))

\* A compressed stream of the bytes: the format's header, then the data.
Compress(comp, bytes) == IF comp = "none" THEN bytes ELSE <<Magic(comp)>> \o bytes

\* The padded standard Base64 text of the bytes.
RECURSIVE EncodeBase64(_)
EncodeBase64(b) ==
    IF Len(b) = 0 THEN <<>>
    ELSE IF Len(b) = 1
         THEN <<Alphabet[b[1] \div 4 + 1], Alphabet[(b[1] % 4) * 16 + 1], "=", "=">>
    ELSE IF Len(b) = 2
         THEN <<Alphabet[b[1] \div 4 + 1],
                Alphabet[(b[1] % 4) * 16 + b[2] \div 16 + 1],
                Alphabet[(b[2] % 16) * 4 + 1], "=">>
    ELSE <<Alphabet[b[1] \div 4 + 1],
           Alphabet[(b[1] % 4) * 16 + b[2] \div 16 + 1],
           Alphabet[(b[2] % 16) * 4 + b[3] \div 64 + 1],
           Alphabet[(b[3] % 64) + 1]>> \o EncodeBase64(SubSeq(b, 4, Len(b)))

\* The tile arrays written, the compressions, and the decompressor windows.
WordValues == {Zero, U32(1), TileID(32769, 258), InvalidID}
WordArrays == UNION {[1 .. n -> WordValues] : n \in 0 .. MaxWords}
Compressions == {"none", "gzip", "zlib", "zstd"}
Windows == {4, 8, MaxWindow}

\* A Base64 payload and the buffer of the expected tile count it is decoded into.
InitWords ==
    /\ orig \in WordArrays
    /\ Compression \in Compressions
    /\ window \in Windows
    /\ tileData = EncodeBase64(Compress(Compression, littleEndian(orig)))
    /\ \E n \in 0 .. MaxWords + 1 : Tiles = MakeTiles(n)
    /\ Encoding = "base64"
    /\ pc = "words"
    /\ Tilesets = <<>>
    /\ Width = 0
    /\ Height = 0
    /\ Chunks = <<>>
    /\ ChunkSize = ZeroSize
    /\ chunkSz = ZeroSize
    /\ chunkCols = 0
    /\ chunkRows = 0
    /\ ret = NoCall
    /\ InitLayers
    /\ IdleRest

\* data.decode(raw, gids) on the Base64 payload.
CallDecodeWords ==
    /\ pc = "words"
    /\ ret = NoCall
    /\ LET r == decode(tileData, Tiles)
       IN  /\ Tiles' = r.gids
           /\ ret' = [op |-> "decode", n |-> Len(Tiles), gids |-> r.gids, err |-> r.err]
    /\ UNCHANGED <<restVars, layerVars, Tilesets, Width, Height, Encoding, Compression, window,
                   Chunks, tileData, ChunkSize, chunkSz, chunkCols, chunkRows, pc, orig>>

NextWords == CallDecodeWords

SpecWords == InitWords /\ [][NextWords]_vars

\* C11: Base64 round trip: for every array of N tile ids and each
\* compression, decoding the Base64 text of the compressed little-endian
\* words with expected count N returns no error and the original array.
C11_Base64RoundTrip ==
    (pc = "words" /\ ret.op = "decode" /\ ret.n = Len(orig)) =>
        (ret.err = "nil" /\ ret.gids = orig)

\* C12: a Base64 payload whose byte count differs from the expected count
\* times four is an error, a payload of exactly that size is never rejected
\* for the size of one Read, and a failed decode leaves the tile array zero.
C12_Base64RejectsWrongLength ==
    (pc = "words" /\ ret.op = "decode") =>
        /\ Len(orig) # ret.n => ret.err # "nil"
        /\ Len(orig) = ret.n => ret.err # "short"
        /\ ret.err # "nil" => ret.gids = MakeTiles(ret.n)

\* ------------------------------------------------------------------------
\* A finite tile layer read from a document with flat CSV data
\* ------------------------------------------------------------------------

\* The global ids of the layer's cells, and the coordinates looked up.
LayerGids == {Zero, U32(1), U32(2), U32(3), U32(4), Or(FlipH, U32(2))}
Coords == {0 - 1, 0, 1, 2, 5}

\* The map's tilesets: two tilesets of two tiles each, at FirstGID 1 and 3.
TwoTilesets ==
    <<[FirstGID |-> U32(1), Tiles |-> DenseTiles(2)],
      [FirstGID |-> U32(3), Tiles |-> DenseTiles(2)]>>

\* The layer after its element was read: size from the attributes, and
\* either the trimmed CSV text of <data> kept as the payload, or the gids of
\* the <tile> children of an unencoded <data> stored as Tiles.
InitTileLayer ==
    /\ Width \in 1 .. MaxDim
    /\ Height \in 1 .. MaxDim
    /\ orig \in [1 .. Width * Height -> LayerGids]
    /\ \/ /\ Encoding = "csv"
          /\ tileData = EncodeCSV(orig)
          /\ Tiles = <<>>
       \/ /\ Encoding = "none"
          /\ tileData = <<>>
          /\ Tiles = orig
    /\ Chunks = <<>>
    /\ Tilesets = TwoTilesets
    /\ ChunkSize = ZeroSize
    /\ chunkSz = ZeroSize
    /\ chunkCols = 0
    /\ chunkRows = 0
    /\ pc = "read"
    /\ ret = NoCall
    /\ Compression = "none"
    /\ window = 0
    /\ InitLayers
    /\ IdleRest

\* TileLayer.UnmarshalXML: return layer.processTiles().
ProcessTiles ==
    /\ pc = "read"
    /\ LET r == processTiles
       IN  /\ Chunks' = r.Chunks
           /\ Tiles' = r.Tiles
           /\ tileData' = r.tileData
           /\ pc' = IF r.err = "nil" THEN "decoded" ELSE "failed"
    /\ UNCHANGED <<restVars, layerVars, Tilesets, Width, Height, Encoding, Compression, window,
                   ChunkSize, chunkSz, chunkCols, chunkRows, ret, orig>>

\* A caller asks the decoded layer for the global id of a cell.
CallGetGID ==
    /\ pc = "decoded"
    /\ \E x \in Coords, y \in Coords :
        LET r == GetGID(x, y)
        IN  ret' = [op |-> "GetGID", x |-> x, y |-> y, gid |-> r.gid, panic |-> r.panic]
    /\ UNCHANGED <<restVars, layerVars, Tilesets, Width, Height, Encoding, Compression, window, Chunks, Tiles,
                   tileData, ChunkSize, chunkSz, chunkCols, chunkRows, pc, orig>>

\* A caller asks the decoded layer for the tile of a cell.
CallTileAt ==
    /\ pc = "decoded"
    /\ \E x \in Coords, y \in Coords :
        LET r == TileAt(x, y)
        IN  ret' = [op |-> "TileAt", x |-> x, y |-> y, tile |-> r.tile,
                    gid |-> r.gid, panic |-> r.panic]
    /\ UNCHANGED <<restVars, layerVars, Tilesets, Width, Height, Encoding, Compression, window, Chunks, Tiles,
                   tileData, ChunkSize, chunkSz, chunkCols, chunkRows, pc, orig>>

NextTileLayer == ProcessTiles \/ CallGetGID \/ CallTileAt

SpecTileLayer == InitTileLayer /\ [][NextTileLayer]_vars

Inside(x, y) == 0 <= x /\ x < Width /\ 0 <= y /\ y < Height

\* C6: for a finite tile layer decoded from flat data, GetGID(x, y) returns
\* Tiles[x + y*width] inside [0,width) x [0,height) and 0, without panic,
\* outside; the 2x2 layer with CSV data "1,2,3,4" gives 1, 2, 3, 4 at (0,0),
\* (1,0), (0,1), (1,1) and 0 at (5,5).
C6_GetGIDReadsDecodedData ==
    ret.op = "GetGID" =>
        /\ ~ret.panic
        /\ Inside(ret.x, ret.y) => ret.gid = Tiles[ret.x + ret.y * Width + 1]
        /\ ~Inside(ret.x, ret.y) => ret.gid = Zero
        /\ (Width = 2 /\ Height = 2 /\ orig = <<U32(1), U32(2), U32(3), U32(4)>>) =>
            /\ (ret.x = 0 /\ ret.y = 0) => ret.gid = U32(1)
            /\ (ret.x = 1 /\ ret.y = 0) => ret.gid = U32(2)
            /\ (ret.x = 0 /\ ret.y = 1) => ret.gid = U32(3)
            /\ (ret.x = 1 /\ ret.y = 1) => ret.gid = U32(4)
            /\ (ret.x = 5 /\ ret.y = 5) => ret.gid = Zero

\* C7: TileAt(x, y) returns (nil, 0) only outside the layer or where the
\* global id is 0; everywhere else it returns the global id with its flag
\* bits and the tile of the tileset Map.Tileset resolves whose local ID is
\* the local id Map.Tileset returns, local id 0 included.
C7_TileAtFindsEveryTile ==
    ret.op = "TileAt" =>
        LET g == IF Inside(ret.x, ret.y) THEN Tiles[ret.x + ret.y * Width + 1] ELSE Zero
            r == Tileset(g)
        IN  /\ ~ret.panic
            /\ g = Zero => (ret.tile = NilTile /\ ret.gid = Zero)
            /\ g # Zero =>
                /\ ret.gid = g
                /\ ret.tile.ts = r.ts
                /\ ret.tile.ID = AsInt(r.id)

\* ------------------------------------------------------------------------
\* An infinite tile layer: chunk addressing
\* ------------------------------------------------------------------------

\* The chunk sizes of the documents read, and the world coordinates looked up.
ChunkDims == {1, 2, 16}
WorldCoords == {0 - 33, 0 - 32, 0 - 17, 0 - 16, 0 - 1, 0, 1, 15, 16, 17, 31, 32, 33}

\* The chunks of a grid of cols x rows chunks of w x h tiles, in the row-major
\* order the editor writes them, the first chunk at the origin.
ChunkGridOf(w, h, cols, rows) ==
    [k \in 1 .. cols * rows |->
        [X |-> ((k - 1) % cols) * w, Y |-> ((k - 1) \div cols) * h,
         Width |-> w, Height |-> h, Tiles |-> MakeTiles(w * h), tileData |-> <<>>]]

\* The layer after its chunks were read and post-processed.
InitChunks ==
    /\ \E w \in ChunkDims, h \in ChunkDims, cols \in 1 .. MaxGrid, rows \in 1 .. MaxGrid :
        Chunks = ChunkGridOf(w, h, cols, rows)
    /\ Width = 0
    /\ Height = 0
    /\ Encoding = "csv"
    /\ Tiles = <<>>
    /\ tileData = <<>>
    /\ Tilesets = <<>>
    /\ ChunkSize = ZeroSize
    /\ chunkSz = ZeroSize
    /\ chunkCols = 0
    /\ chunkRows = 0
    /\ pc = "chunks"
    /\ ret = NoCall
    /\ orig = <<>>
    /\ Compression = "none"
    /\ window = 0
    /\ InitLayers
    /\ IdleRest

\* TileLayer.UnmarshalXML, after post-processing: the chunk grid is set up.
SetupChunkGrid ==
    /\ pc = "chunks"
    /\ Len(Chunks) > 0
    /\ chunkSz' = chunkGrid.chunkSz
    /\ ChunkSize' = chunkGrid.ChunkSize
    /\ chunkCols' = chunkGrid.chunkCols
    /\ chunkRows' = chunkGrid.chunkRows
    /\ pc' = "addressable"
    /\ UNCHANGED <<restVars, layerVars, Tilesets, Width, Height, Encoding, Compression, window, Chunks, Tiles,
                   tileData, ret, orig>>

\* A caller asks the layer for the chunk of a world coordinate.
CallChunkAt ==
    /\ pc = "addressable"
    /\ \E x \in WorldCoords, y \in WorldCoords :
        LET r == ChunkAt(x, y)
        IN  ret' = [op |-> "ChunkAt", x |-> x, y |-> y, chunk |-> r.chunk,
                    lx |-> r.x, ly |-> r.y, panic |-> r.panic]
    /\ UNCHANGED <<restVars, layerVars, Tilesets, Width, Height, Encoding, Compression, window, Chunks, Tiles,
                   tileData, ChunkSize, chunkSz, chunkCols, chunkRows, pc, orig>>

NextChunks == SetupChunkGrid \/ CallChunkAt

SpecChunks == InitChunks /\ [][NextChunks]_vars

\* C8: ChunkAt(x, y) uses floored modulo: for every world coordinate, negative
\* ones included, the chunk index lies in [0, len(Chunks)) and the local
\* coordinates in [0, chunkWidth) x [0, chunkHeight); with 16x16 chunks in a
\* 2x2 grid, (-1, -1) resolves to the last chunk and local cell (15, 15).
C8_ChunkAtStaysInRange ==
    ret.op = "ChunkAt" =>
        /\ ~ret.panic
        /\ ret.chunk \in 1 .. Len(Chunks)
        /\ ret.lx \in 0 .. Chunks[1].Width - 1
        /\ ret.ly \in 0 .. Chunks[1].Height - 1
        /\ (Chunks = ChunkGridOf(16, 16, 2, 2) /\ ret.x = 0 - 1 /\ ret.y = 0 - 1) =>
            (ret.chunk = Len(Chunks) /\ ret.lx = 15 /\ ret.ly = 15)

\* ------------------------------------------------------------------------
\* Objects: decoding and template inheritance
\* ------------------------------------------------------------------------

\* The attributes of an <object> tracked by a flag, and those of its <text>.
ObjectFields ==
    {"name", "class", "x", "y", "width", "height", "rotation", "gid", "visible"}
TextFields ==
    {"fontfamily", "pixelsize", "wrap", "color", "bold", "italic", "underline",
     "strikeout", "kerning", "halign", "valign", "text"}

\* Align bits: AlignCenterH = AlignLeft | AlignRight, AlignCenterV = AlignTop | AlignBottom.
AlignCenterH == {"left", "right"}
AlignCenterV == {"top", "bottom"}

\* parseAlign, with AlignCenter narrowed to the axis being read.
parseAlign(name, axis) ==
    IF name = "center" THEN axis ELSE {name}

\* What a document of the object (role "obj") or of the template (role
\* "tmpl") writes for an attribute it carries. The object writes the values a
\* decoder cannot tell from defaults, the template writes other values.
Written(role, f) ==
    CASE f \in {"name", "class", "fontfamily", "text", "color"} -> role
      [] f \in {"x", "y", "width", "height", "rotation", "gid"} ->
            IF role = "obj" THEN 0 ELSE 5
      [] f = "pixelsize" -> IF role = "obj" THEN 16 ELSE 32
      [] f = "visible" -> role = "obj"
      [] f = "kerning" -> role = "obj"
      [] f \in {"wrap", "bold", "italic", "underline", "strikeout"} -> role = "tmpl"
      [] f = "halign" -> IF role = "obj" THEN "left" ELSE "right"
      [] OTHER -> IF role = "obj" THEN "top" ELSE "center"

\* The value of an attribute the document carries, else the given default.
attr(role, present, f, def) == IF f \in present THEN Written(role, f) ELSE def

\* The style bits after the attribute of that name, if present, was read.
styleBit(role, present, f, bit, style) ==
    IF f \notin present THEN style
    ELSE IF Written(role, f) THEN style \cup {bit} ELSE style \ {bit}

\* Text.UnmarshalXML / Text.UnmarshalJSON. The JSON decoder writes the
\* italic bit on "underline".
decodeText(role, present, format) ==
    LET s1 == styleBit(role, present, "bold", "bold", {"kerning"})
        s2 == styleBit(role, present, "italic", "italic", s1)
        s3 == styleBit(role, present, "kerning", "kerning", s2)
        s4 == styleBit(role, present, "strikeout", "strikeout", s3)
        s5 == styleBit(role, present, "underline",
                       IF format = "json" THEN "italic" ELSE "underline", s4)
        hAlign == {"left"} \cup
                  (IF "halign" \in present
                   THEN parseAlign(Written(role, "halign"), AlignCenterH) ELSE {})
        vAlign == {"top"} \cup
                  (IF "valign" \in present
                   THEN parseAlign(Written(role, "valign"), AlignCenterV) ELSE {})
    IN  [FontFamily |-> attr(role, present, "fontfamily", "sans-serif"),
         Value |-> attr(role, present, "text", ""),
         PixelSize |-> attr(role, present, "pixelsize", 16),
         Color |-> attr(role, present, "color", "black"),
         Style |-> s5,
         WordWrap |-> attr(role, present, "wrap", FALSE),
         Align |-> hAlign \cup vAlign,
         flags |-> present]

\* &Text{}: the zero Text.
ZeroText ==
    [FontFamily |-> "", Value |-> "", PixelSize |-> 0, Color |-> "", Style |-> {},
     WordWrap |-> FALSE, Align |-> {}, flags |-> {}]

\* Object.UnmarshalXML / Object.UnmarshalJSON up to the call of inherit: the
\* fields and flags of the attributes and of the shape element. Only the XML
\* decoder flags the shape kind and the points; neither flags the kind on
\* <text>.
decodeObject(role, doc, format, template, text) ==
    LET present == doc.fields
        shaped == format = "xml" /\ doc.shape \in {"point", "ellipse", "polygon"}
    IN  [Name |-> attr(role, present, "name", ""),
         Class |-> attr(role, present, "class", ""),
         X |-> attr(role, present, "x", 0),
         Y |-> attr(role, present, "y", 0),
         Width |-> attr(role, present, "width", 0),
         Height |-> attr(role, present, "height", 0),
         Rotation |-> attr(role, present, "rotation", 0),
         GID |-> attr(role, present, "gid", 0),
         Visible |-> attr(role, present, "visible", TRUE),
         Template |-> template,
         Type |-> doc.shape,
         Text |-> IF doc.shape = "text" THEN text ELSE Nil,
         Points |-> IF doc.shape = "polygon" THEN doc.points ELSE <<>>,
         flags |-> present
                   \cup (IF shaped THEN {"kind"} ELSE {})
                   \cup (IF shaped /\ doc.shape = "polygon" THEN {"points"} ELSE {})
                   \cup (IF doc.shape = "text" THEN doc.text ELSE {})]

\* Object.override: the object did not set the field and its template did.
override(o, t, flag) == flag \notin o.flags /\ flag \in t.flags

\* One style bit of the object's Text after the merge of that bit.
mergeStyle(o, t, bit, from, style) ==
    IF ~override(o, t, bit) THEN style
    ELSE IF bit \in from THEN style \cup {bit} ELSE style \ {bit}

\* Object.inherit, the Text part: the object's Text (a new zero Text when it
\* has none) takes the sub-fields to override one by one; with flagText to
\* override, obj.Text is then set to the template's pointer.
inheritText(o, t, heap, fresh) ==
    LET at == IF o.Text = Nil THEN fresh ELSE o.Text
        own == IF o.Text = Nil THEN ZeroText ELSE heap[o.Text]
        from == heap[t.Text]
        s1 == mergeStyle(o, t, "bold", from.Style, own.Style)
        s2 == mergeStyle(o, t, "italic", from.Style, s1)
        s3 == mergeStyle(o, t, "underline", from.Style, s2)
        s4 == mergeStyle(o, t, "strikeout", from.Style, s3)
        s5 == mergeStyle(o, t, "kerning", from.Style, s4)
        a1 == IF override(o, t, "halign")
              THEN (own.Align \ AlignCenterH) \cup (from.Align \ AlignCenterV)
              ELSE own.Align
        a2 == IF override(o, t, "valign")
              THEN (a1 \ AlignCenterV) \cup (from.Align \ AlignCenterH)
              ELSE a1
        merged ==
            [own EXCEPT
                !.FontFamily = IF override(o, t, "fontfamily") THEN from.FontFamily ELSE @,
                !.PixelSize = IF override(o, t, "pixelsize") THEN from.PixelSize ELSE @,
                !.WordWrap = IF override(o, t, "wrap") THEN from.WordWrap ELSE @,
                !.Color = IF override(o, t, "color") THEN from.Color ELSE @,
                !.Style = s5,
                !.Align = a2]
    IN  [obj |-> [o EXCEPT !.Text = IF override(o, t, "text") THEN t.Text ELSE at],
         texts |-> (at :> merged) @@ heap]

\* Object.inherit. The points are copied into a slice made with length 0.
inherit(o, t, heap, fresh) ==
    IF ~o.Template THEN [obj |-> o, texts |-> heap]
    ELSE LET o1 == [o EXCEPT
                     !.Type = IF override(o, t, "kind") THEN t.Type ELSE @,
                     !.Name = IF override(o, t, "name") THEN t.Name ELSE @,
                     !.Class = IF override(o, t, "class") THEN t.Class ELSE @,
                     !.X = IF override(o, t, "x") THEN t.X ELSE @,
                     !.Y = IF override(o, t, "y") THEN t.Y ELSE @,
                     !.Width = IF override(o, t, "width") THEN t.Width ELSE @,
                     !.Height = IF override(o, t, "height") THEN t.Height ELSE @,
                     !.Rotation = IF override(o, t, "rotation") THEN t.Rotation ELSE @,
                     !.GID = IF override(o, t, "gid") THEN t.GID ELSE @,
                     !.Visible = IF override(o, t, "visible") THEN t.Visible ELSE @,
                     !.Points = IF override(o, t, "points")
                                THEN SubSeq(t.Points, 1, Min(0, Len(t.Points)))
                                ELSE @]
         IN  IF t.Text = Nil THEN [obj |-> o1, texts |-> heap]
             ELSE inheritText(o1, t, heap, fresh)

\* Object.Clone: a copy of the struct, of its Text, and a new points slice
\* made with length 0 when the object has points.
Clone(o, heap, fresh) ==
    [obj |-> [o EXCEPT
                !.Text = IF o.Text # Nil THEN fresh ELSE Nil,
                !.Points = IF Len(o.Points) > 0
                           THEN SubSeq(o.Points, 1, Min(0, Len(o.Points)))
                           ELSE @],
     texts |-> IF o.Text # Nil THEN (fresh :> heap[o.Text]) @@ heap ELSE heap]

\* The documents read: an object or template carries at most MaxAttrs of the
\* flagged attributes, and one shape element or none.
FieldSets == {S \in SUBSET ObjectFields : Cardinality(S) <= MaxAttrs}
TextSets == {S \in SUBSET TextFields : Cardinality(S) <= MaxAttrs}
Doc(fields, shape, points, text) ==
    [fields |-> fields, shape |-> shape, points |-> points, text |-> text]
PlainDocs(shape) == {Doc(S, k, <<>>, {}) : S \in FieldSets, k \in {"none", shape}}
TextDocs == {Doc({}, "text", <<>>, T) : T \in TextSets}
DocPairs ==
    (PlainDocs("point") \X PlainDocs("ellipse"))
    \cup ({Doc({}, "none", <<>>, {}), Doc({}, "polygon", <<1>>, {})}
              \X {Doc({}, "polygon", <<2, 3>>, {})})
    \cup (({Doc({}, "none", <<>>, {})} \cup TextDocs) \X TextDocs)

\* An object document, with the template document it names or none.
InitObjects ==
    /\ \E format \in {"xml", "json"} :
          \/ \E pair \in DocPairs :
                /\ docs = [format |-> format, template |-> TRUE,
                          obj |-> pair[1], tmpl |-> pair[2]]
                /\ pc = "template"
          \/ \E d \in PlainDocs("point") \cup TextDocs :
                /\ docs = [format |-> format, template |-> FALSE, obj |-> d, tmpl |-> d]
                /\ pc = "object"
    /\ obj = Nil
    /\ tmpl = Nil
    /\ dup = Nil
    /\ texts = <<>>
    /\ input = Nil
    /\ IdleCache
    /\ ret = NoCall
    /\ Tilesets = <<>>
    /\ Width = 0
    /\ Height = 0
    /\ Encoding = "none"
    /\ Compression = "none"
    /\ window = 0
    /\ Chunks = <<>>
    /\ Tiles = <<>>
    /\ tileData = <<>>
    /\ ChunkSize = ZeroSize
    /\ chunkSz = ZeroSize
    /\ chunkCols = 0
    /\ chunkRows = 0
    /\ orig = <<>>
    /\ InitLayers

\* The heap after a decoded <text> was stored at the address, if there is one.
withText(role, doc, format, heap, at) ==
    IF doc.shape = "text" THEN (at :> decodeText(role, doc.text, format)) @@ heap
    ELSE heap

\* The "template" attribute: OpenTemplate decodes the template's object.
DecodeTemplate ==
    /\ pc = "template"
    /\ tmpl' = decodeObject("tmpl", docs.tmpl, docs.format, FALSE, 1)
    /\ texts' = withText("tmpl", docs.tmpl, docs.format, texts, 1)
    /\ pc' = "object"
    /\ UNCHANGED <<layerVars, tileState, cacheVars, input, ret, obj, dup, docs>>

\* Object.UnmarshalXML / Object.UnmarshalJSON: the attributes and elements,
\* then obj.inherit().
DecodeObject ==
    /\ pc = "object"
    /\ LET o == decodeObject("obj", docs.obj, docs.format, docs.template, 2)
           r == inherit(o, tmpl, withText("obj", docs.obj, docs.format, texts, 2), 2)
       IN  /\ obj' = r.obj
           /\ texts' = r.texts
    /\ pc' = "decoded"
    /\ UNCHANGED <<layerVars, tileState, cacheVars, input, ret, tmpl, dup, docs>>

\* obj.Clone().
CloneObject ==
    /\ pc = "decoded"
    /\ LET r == Clone(obj, texts, 3)
       IN  /\ dup' = r.obj
           /\ texts' = r.texts
    /\ pc' = "cloned"
    /\ UNCHANGED <<layerVars, tileState, cacheVars, input, ret, obj, tmpl, docs>>

NextObjects == DecodeTemplate \/ DecodeObject \/ CloneObject

SpecObjects == InitObjects /\ [][NextObjects]_vars

\* The field of an Object, and of a Text, that an attribute is stored in.
Field(o, f) ==
    CASE f = "name" -> o.Name
      [] f = "class" -> o.Class
      [] f = "x" -> o.X
      [] f = "y" -> o.Y
      [] f = "width" -> o.Width
      [] f = "height" -> o.Height
      [] f = "rotation" -> o.Rotation
      [] f = "gid" -> o.GID
      [] OTHER -> o.Visible
TextField(t, f) ==
    CASE f = "fontfamily" -> t.FontFamily
      [] f = "pixelsize" -> t.PixelSize
      [] f = "wrap" -> t.WordWrap
      [] f = "color" -> t.Color
      [] f = "text" -> t.Value
      [] f = "halign" -> t.Align \ AlignCenterV
      [] f = "valign" -> t.Align \cap AlignCenterV
      [] OTHER -> f \in t.Style

\* The value of a field that no document sets.
Default(f) ==
    CASE f \in {"name", "class"} -> ""
      [] f = "visible" -> TRUE
      [] OTHER -> 0

Decoded == pc \in {"decoded", "cloned"}

\* C13: after inherit() every flagged field holds the object's own value if
\* its document set it, else the template's if the template's document set
\* it, else the default; likewise the shape kind; an object without a
\* template keeps what its own document gave.
C13_ThreeWayMerge ==
    Decoded =>
        LET own == docs.obj
            from == docs.tmpl
        IN  /\ \A f \in ObjectFields :
                  Field(obj, f) =
                      IF f \in own.fields THEN Written("obj", f)
                      ELSE IF docs.template /\ f \in from.fields THEN Written("tmpl", f)
                      ELSE Default(f)
            /\ obj.Type =
                  IF own.shape # "none" THEN own.shape
                  ELSE IF docs.template THEN from.shape
                  ELSE "none"

\* C14: an object that inherits its points has the template's points, same
\* length and same elements, and a clone has the points of its original.
C14_PointsAreCopied ==
    /\ (Decoded /\ docs.template /\ docs.obj.shape # "polygon"
            /\ docs.tmpl.shape = "polygon") => obj.Points = tmpl.Points
    /\ pc = "cloned" => dup.Points = obj.Points

\* C15: with a template that has a Text, every text sub-field the object's
\* document set keeps the object's value, every one only the template's
\* document set has the template's value, and the object's Text is not the
\* template's Text.
C15_TextMergedFieldByField ==
    (Decoded /\ docs.template /\ docs.tmpl.shape = "text") =>
        LET own == decodeText("obj", docs.obj.text, docs.format)
            from == texts[tmpl.Text]
            mine == IF docs.obj.shape = "text" THEN docs.obj.text ELSE {}
        IN  /\ obj.Text # tmpl.Text
            /\ \A f \in TextFields :
                  /\ f \in mine => TextField(texts[obj.Text], f) = TextField(own, f)
                  /\ (f \notin mine /\ f \in docs.tmpl.text) =>
                        TextField(texts[obj.Text], f) = TextField(from, f)

\* ------------------------------------------------------------------------
\* JSON decoders: token streams and unknown properties
\* ------------------------------------------------------------------------

\* The tokens json.Decoder.Token returns: delimiters, strings, numbers.
Delim(c) == [t |-> "delim", v |-> c]
Str(x) == [t |-> "string", v |-> x]
Num(x) == [t |-> "number", v |-> x]

\* jsonSkip: reads tokens until the braces and brackets it has seen balance.
RECURSIVE jsonSkip(_, _, _, _)
jsonSkip(toks, pos, d1, d2) ==
    IF pos > Len(toks) THEN [pos |-> pos, err |-> "EOF"]
    ELSE LET token == toks[pos]
             n1 == IF token = Delim("}") THEN d1 - 1
                   ELSE IF token = Delim("{") THEN d1 + 1 ELSE d1
             n2 == IF token = Delim("]") THEN d2 - 1
                   ELSE IF token = Delim("[") THEN d2 + 1 ELSE d2
         IN  IF n1 = 0 /\ n2 = 0 THEN [pos |-> pos + 1, err |-> "nil"]
             ELSE jsonSkip(toks, pos + 1, n1, n2)

\* What a decoder returns: the size it decoded, the error, the stream offset.
Decoding(size, err, pos) == [Size |-> size, err |-> err, pos |-> pos]

\* Map.UnmarshalJSON, the property loop: a known property is read with
\* jsonProp, any other is passed to jsonSkip with its value still unread.
RECURSIVE mapLoop(_, _, _)
mapLoop(toks, pos, m) ==
    IF pos > Len(toks) THEN Decoding(m, "EOF", pos)
    ELSE IF toks[pos] = Delim("}") THEN Decoding(m, "nil", pos + 1)
    ELSE IF toks[pos].t # "string" THEN Decoding(m, "panic", pos)
    ELSE LET name == toks[pos].v
         IN  IF name \in {"width", "height"}
             THEN IF pos + 1 > Len(toks) THEN Decoding(m, "EOF", pos + 1)
                  ELSE IF toks[pos + 1].t # "number" THEN Decoding(m, "type", pos + 2)
                  ELSE mapLoop(toks, pos + 2,
                               IF name = "width"
                               THEN [m EXCEPT !.Width = toks[pos + 1].v]
                               ELSE [m EXCEPT !.Height = toks[pos + 1].v])
             ELSE mapLoop(toks, jsonSkip(toks, pos + 1, 0, 0).pos, m)

\* Chunk.UnmarshalJSON, the property loop: the value's first token is read
\* before the switch, and an unknown property then calls jsonSkip.
RECURSIVE chunkLoop(_, _, _)
chunkLoop(toks, pos, c) ==
    IF pos > Len(toks) THEN Decoding(c, "EOF", pos)
    ELSE IF toks[pos] = Delim("}") THEN Decoding(c, "nil", pos + 1)
    ELSE IF toks[pos].t # "string" THEN Decoding(c, "panic", pos)
    ELSE IF pos + 1 > Len(toks) THEN Decoding(c, "EOF", pos + 1)
    ELSE LET name == toks[pos].v
             token == toks[pos + 1]
         IN  IF name \in {"width", "height"}
             THEN IF token.t # "number" THEN Decoding(c, "panic", pos + 2)
                  ELSE chunkLoop(toks, pos + 2,
                                 IF name = "width"
                                 THEN [c EXCEPT !.Width = token.v]
                                 ELSE [c EXCEPT !.Height = token.v])
             ELSE chunkLoop(toks, jsonSkip(toks, pos + 2, 0, 0).pos, c)

\* Object.UnmarshalJSON, the property loop: one token is read as the value
\* of every property but the structured ones it knows.
RECURSIVE objectLoop(_, _, _)
objectLoop(toks, pos, o) ==
    IF pos > Len(toks) THEN Decoding(o, "EOF", pos)
    ELSE IF toks[pos] = Delim("}") THEN Decoding(o, "nil", pos + 1)
    ELSE IF toks[pos].t # "string" THEN Decoding(o, "panic", pos)
    ELSE IF pos + 1 > Len(toks) THEN Decoding(o, "EOF", pos + 1)
    ELSE LET name == toks[pos].v
             token == toks[pos + 1]
         IN  IF name \in {"width", "height"}
             THEN IF token.t # "number" THEN Decoding(o, "panic", pos + 2)
                  ELSE objectLoop(toks, pos + 2,
                                  IF name = "width"
                                  THEN [o EXCEPT !.Width = token.v]
                                  ELSE [o EXCEPT !.Height = token.v])
             ELSE objectLoop(toks, pos + 2, o)

\* UnmarshalJSON of the named decoder on a token stream.
UnmarshalJSON(decoder, toks) ==
    LET zero == [Width |-> "0", Height |-> "0"]
    IN  IF Len(toks) = 0 THEN Decoding(zero, "EOF", 1)
        ELSE IF toks[1] # Delim("{") THEN Decoding(zero, "object", 2)
        ELSE CASE decoder = "map" -> mapLoop(toks, 2, zero)
               [] decoder = "chunk" -> chunkLoop(toks, 2, zero)
               [] OTHER -> objectLoop(toks, 2, zero)

\* No layer, tile data or object is involved in the call.
QuietState ==
    /\ InitLayers
    /\ IdleObjects
    /\ Tilesets = <<>>
    /\ Width = 0
    /\ Height = 0
    /\ Encoding = "none"
    /\ Compression = "none"
    /\ window = 0
    /\ Chunks = <<>>
    /\ Tiles = <<>>
    /\ tileData = <<>>
    /\ ChunkSize = ZeroSize
    /\ chunkSz = ZeroSize
    /\ chunkCols = 0
    /\ chunkRows = 0
    /\ orig = <<>>

quiet == <<layerVars, tileState, objectVars>>

\* The token streams read: an object of known properties, and the values an
\* unknown property may carry between them.
KnownMembers ==
    {<<>>,
     <<Str("width"), Num("3")>>,
     <<Str("width"), Num("3"), Str("height"), Num("4")>>,
     <<Str("height"), Num("4"), Str("width"), Num("3")>>}
UnknownValues ==
    {<<Num("9")>>,
     <<Str("s")>>,
     <<Delim("{"), Delim("}")>>,
     <<Delim("{"), Str("a"), Num("1"), Delim("}")>>,
     <<Delim("["), Num("1"), Num("2"), Delim("]")>>,
     <<Delim("{"), Str("a"), Delim("["), Delim("{"), Str("width"), Num("9"),
       Delim("}"), Delim("]"), Delim("}")>>}
JsonObject(members) == <<Delim("{")>> \o members \o <<Delim("}")>>

\* The members with the unknown property put before the member at an index.
WithUnknown(members, at, value) ==
    SubSeq(members, 1, at - 1) \o <<Str("foo")>> \o value
        \o SubSeq(members, at, Len(members))

InitJSON ==
    /\ \E decoder \in {"map", "chunk", "object"}, known \in KnownMembers :
          \/ input = [decoder |-> decoder, known |-> known, unknown |-> FALSE,
                      toks |-> JsonObject(known)]
          \/ \E value \in UnknownValues, at \in {1, 3, 5} :
                /\ at <= Len(known) + 1
                /\ input = [decoder |-> decoder, known |-> known, unknown |-> TRUE,
                            toks |-> JsonObject(WithUnknown(known, at, value))]
    /\ pc = "json"
    /\ ret = NoCall
    /\ IdleCache
    /\ QuietState

\* json.Unmarshal of the document into a Map, a Chunk or an Object.
CallUnmarshalJSON ==
    /\ pc = "json"
    /\ ret = NoCall
    /\ ret' = [op |-> "UnmarshalJSON"] @@ UnmarshalJSON(input.decoder, input.toks)
    /\ UNCHANGED <<quiet, cacheVars, input, pc>>

NextJSON == CallUnmarshalJSON

SpecJSON == InitJSON /\ [][NextJSON]_vars

\* C16: in every decoder a document with an unknown property decodes without
\* error, the whole document is consumed, and every known property has the
\* value it has in the same document without the unknown property.
C16_UnknownPropertySkipped ==
    (pc = "json" /\ ret.op = "UnmarshalJSON" /\ input.unknown) =>
        LET plain == UnmarshalJSON(input.decoder, JsonObject(input.known))
        IN  /\ ret.err = "nil"
            /\ ret.pos = Len(input.toks) + 1
            /\ ret.Size = plain.Size

\* ------------------------------------------------------------------------
\* Format detection
\* ------------------------------------------------------------------------

\* A path is its pieces: names, "/" and ".".
\* filepath.Ext: the suffix from the last "." of the last element, or none.
RECURSIVE lastDot(_, _)
lastDot(path, i) ==
    IF i = 0 \/ path[i] = "/" THEN 0
    ELSE IF path[i] = "." THEN i
    ELSE lastDot(path, i - 1)
Ext(path) ==
    LET i == lastDot(path, Len(path))
    IN  IF i = 0 THEN <<>> ELSE SubSeq(path, i, Len(path))

\* strings.ToLower.
ToLower(piece) ==
    CASE piece = "TMX" -> "tmx"
      [] piece = "Json" -> "json"
      [] OTHER -> piece
Lowered(pieces) == [i \in DOMAIN pieces |-> ToLower(pieces[i])]

\* DetectContents: the first '<', '{' or '[' from the reader's position
\* decides; the deferred Seek puts the reader back where it was.
RECURSIVE scanRunes(_, _)
scanRunes(text, i) ==
    IF i > Len(text) THEN "unknown"
    ELSE IF text[i] = "<" THEN "xml"
    ELSE IF text[i] \in {"{", "["} THEN "json"
    ELSE scanRunes(text, i + 1)
DetectContents(text, pos) == [format |-> scanRunes(text, pos + 1), pos |-> pos]

\* DetectExt: the extension decides; no extension is FormatUnknown; any
\* other extension falls back to the contents of the file, when it is found.
DetectExt(path, found, text) ==
    LET ext == Lowered(Ext(path))
    IN  IF ext = <<>> THEN "unknown"
        ELSE IF ext \in {<<".", "tmx">>, <<".", "tsx">>, <<".", "tx">>, <<".", "xml">>}
             THEN "xml"
        ELSE IF ext \in {<<".", "tmj">>, <<".", "tsj">>, <<".", "tj">>, <<".", "json">>}
             THEN "json"
        ELSE IF ~found THEN "unknown"
        ELSE DetectContents(text, 0).format

\* The paths and file contents detection is run on.
Paths ==
    {<<"map", ".", e>> : e \in {"tmx", "TMX", "tsx", "tx", "xml", "tmj", "tsj", "tj",
                                 "json", "Json", "dat"}}
    \cup {<<"map">>, <<"dir", ".", "tmx", "/", "map">>, <<"map", ".", "tmx", ".", "bak">>}
Runes == {"<", "{", "[", " ", "x"}
Contents == UNION {[1 .. n -> Runes] : n \in 0 .. MaxContent}

InitDetect ==
    /\ \/ /\ input \in [op : {"DetectExt"}, path : Paths, found : BOOLEAN,
                        text : {c \in Contents : Len(c) < MaxContent}, pos : {0}]
       \/ /\ input \in [op : {"DetectContents"}, path : {<<>>}, found : {TRUE},
                        text : Contents, pos : 0 .. MaxContent]
          /\ input.pos <= Len(input.text)
    /\ pc = "detect"
    /\ ret = NoCall
    /\ IdleCache
    /\ QuietState

\* DetectExt(path).
CallDetectExt ==
    /\ pc = "detect"
    /\ ret = NoCall
    /\ input.op = "DetectExt"
    /\ ret' = [op |-> "DetectExt",
               format |-> DetectExt(input.path, input.found, input.text),
               pos |-> 0]
    /\ UNCHANGED <<quiet, cacheVars, input, pc>>

\* DetectContents(reader).
CallDetectContents ==
    /\ pc = "detect"
    /\ ret = NoCall
    /\ input.op = "DetectContents"
    /\ ret' = [op |-> "DetectContents"] @@ DetectContents(input.text, input.pos)
    /\ UNCHANGED <<quiet, cacheVars, input, pc>>

NextDetect == CallDetectExt \/ CallDetectContents

SpecDetect == InitDetect /\ [][NextDetect]_vars

\* The runes of a text that decide a format, from a position on.
Deciding(text, pos) == {i \in DOMAIN text : i > pos /\ text[i] \in {"<", "{", "["}}

\* The format the first deciding rune stands for.
Sniffed(text, pos) ==
    IF Deciding(text, pos) = {} THEN "unknown"
    ELSE LET i == CHOOSE j \in Deciding(text, pos) : \A k \in Deciding(text, pos) : j <= k
         IN  IF text[i] = "<" THEN "xml" ELSE "json"

\* C17: the extension decides for the XML and the JSON extensions, in any
\* letter case; every other path of a file that is found, one without an
\* extension included, gets the format of the first '<', '{' or '[' of the
\* contents, Unknown if there is none; the scan leaves the reader where it was.
C17_DetectByExtensionThenContents ==
    /\ (pc = "detect" /\ ret.op = "DetectExt") =>
          LET ext == Lowered(Ext(input.path))
          IN  ret.format =
                 IF ext \in {<<".", e>> : e \in {"tmx", "tsx", "tx", "xml"}} THEN "xml"
                 ELSE IF ext \in {<<".", e>> : e \in {"tmj", "tsj", "tj", "json"}} THEN "json"
                 ELSE IF input.found THEN Sniffed(input.text, 0)
                 ELSE "unknown"
    /\ (pc = "detect" /\ ret.op = "DetectContents") =>
          (ret.format = Sniffed(input.text, input.pos) /\ ret.pos = input.pos)

\* ------------------------------------------------------------------------
\* Properties of a custom class read from JSON
\* ------------------------------------------------------------------------

HexDigits == <<"0", "1", "2", "3", "4", "5", "6", "7", "8", "9",
               "a", "b", "c", "d", "e", "f">>
HexValue(c) == (CHOOSE i \in DOMAIN HexDigits : HexDigits[i] = c) - 1

\* strconv.ParseUint(s, 16, 32) from a position on, the value so far in n.
RECURSIVE parseHexFrom(_, _, _)
parseHexFrom(s, i, n) ==
    IF i > Len(s) THEN [value |-> n, err |-> "nil"]
    ELSE IF \A k \in DOMAIN HexDigits : HexDigits[k] # s[i]
         THEN [value |-> Zero, err |-> "syntax"]
    ELSE IF n.h >= 4096 THEN [value |-> InvalidID, err |-> "range"]
    ELSE parseHexFrom(s, i + 1,
                      TileID((n.h * 16 + n.l \div 4096) % Half,
                             ((n.l % 4096) * 16 + HexValue(s[i])) % Half))

\* ParseColor: an optional '#', then hexadecimal AARRGGBB; a text shorter
\* than eight characters is opaque; the result is stored as AABBGGRR.
ParseColor(str) ==
    LET r == IF Len(str) > 0 /\ str[1] = "#"
             THEN (IF Len(str) = 1 THEN [value |-> Zero, err |-> "syntax"]
                   ELSE parseHexFrom(str, 2, Zero))
             ELSE (IF Len(str) = 0 THEN [value |-> Zero, err |-> "syntax"]
                   ELSE parseHexFrom(str, 1, Zero))
        hi == IF Len(str) < 8 THEN 65280 + (r.value.h % 256) ELSE r.value.h
        lo == r.value.l
    IN  IF r.err # "nil" THEN [color |-> Zero, err |-> r.err]
        ELSE [color |-> TileID((hi \div 256) * 256 + (lo % 256),
                               (lo \div 256) * 256 + (hi % 256)),
              err |-> "nil"]

Bool(b) == [t |-> "bool", v |-> b]

\* Property.jsonValue for a property of no known type: one token, by its
\* Go type.
jsonValue(toks, pos) ==
    IF pos > Len(toks) THEN [kind |-> "none", err |-> "EOF", pos |-> pos]
    ELSE LET token == toks[pos]
         IN  IF token.t = "number"
             THEN [kind |-> "float64", v |-> token.v, err |-> "nil", pos |-> pos + 1]
             ELSE IF token.t = "bool"
             THEN [kind |-> "bool", v |-> token.v, err |-> "nil", pos |-> pos + 1]
             ELSE IF token.t = "string"
             THEN [kind |-> "string", v |-> token.v, err |-> "nil", pos |-> pos + 1]
             ELSE [kind |-> "none", err |-> "unknown property type", pos |-> pos + 1]

\* The property jsonClass makes of a value of no known type. prop.Name is
\* never assigned.
guessType(value) ==
    CASE value.kind = "string" ->
            IF ParseColor(value.v).err = "nil"
            THEN [Name |-> "", Type |-> "color", Value |-> ParseColor(value.v).color]
            ELSE [Name |-> "", Type |-> "string", Value |-> value.v]
      [] value.kind = "float64" ->
            IF value.v.f = 0
            THEN [Name |-> "", Type |-> "int", Value |-> value.v.w]
            ELSE [Name |-> "", Type |-> "float", Value |-> value.v]
      [] OTHER -> [Name |-> "", Type |-> "bool", Value |-> value.v]

\* The registered classes: CustomTypes maps a class name to its Members,
\* each stored under its own Name. The one registered class has a String
\* member "a", whose value jsonValue reads as it reads one of no known type.
CustomTypes(class) ==
    IF class = "Hero" THEN ("a" :> [Name |-> "a", Type |-> "string", Value |-> <<>>])
    ELSE <<>>

\* Property.jsonClass, the member loop: a member the class defines keeps
\* the Name and Type of the definition and takes the value read; any other
\* is typed by guessing.
RECURSIVE classLoop(_, _, _)
classLoop(toks, pos, props) ==
    IF pos > Len(toks) THEN [props |-> props, err |-> "EOF"]
    ELSE IF toks[pos] = Delim("}") THEN [props |-> props, err |-> "nil"]
    ELSE IF toks[pos].t # "string" THEN [props |-> props, err |-> "panic"]
    ELSE LET value == jsonValue(toks, pos + 1)
         IN  IF value.err # "nil" THEN [props |-> <<>>, err |-> value.err]
             ELSE LET prop == IF toks[pos].v \in DOMAIN props
                              THEN [props[toks[pos].v] EXCEPT !.Value = value.v]
                              ELSE guessType(value)
                  IN  classLoop(toks, value.pos,
                                (prop.Name :> prop) @@ props)

\* Property.jsonClass: the members of the registered class, or a blank
\* map, then the member loop.
jsonClass(toks, class) ==
    IF Len(toks) = 0 THEN [props |-> <<>>, err |-> "EOF"]
    ELSE IF toks[1] # Delim("{") THEN [props |-> <<>>, err |-> "object"]
    ELSE classLoop(toks, 2, CustomTypes(class))

\* The values a member of the class carries in the document.
ClassStrings ==
    {<<>>, <<"#">>, <<"h", "i">>, <<"f">>, <<"#", "1", "f">>,
     <<"#", "f", "f", "0", "0", "8", "0">>,
     <<"8", "0", "f", "f", "0", "0", "1", "0">>}
ClassValues ==
    {<<Str(x)>> : x \in ClassStrings}
    \cup {<<Num([w |-> 3, f |-> 0])>>, <<Num([w |-> 3, f |-> 5])>>,
          <<Bool(TRUE)>>, <<Bool(FALSE)>>,
          <<Delim("{"), Str("n"), Num([w |-> 1, f |-> 0]), Delim("}")>>}
ClassMembers ==
    {<<>>}
    \cup {<<Str("a")>> \o v : v \in ClassValues}
    \cup {<<Str("a")>> \o v \o <<Str("b")>> \o w : v, w \in ClassValues}

InitClass ==
    /\ \E members \in ClassMembers, class \in {"", "Hero"} :
          input = [op |-> "jsonClass", toks |-> JsonObject(members), class |-> class]
    /\ pc = "class"
    /\ ret = NoCall
    /\ IdleCache
    /\ QuietState

\* p.jsonClass(d, class) on the value of a class-typed property.
CallJsonClass ==
    /\ pc = "class"
    /\ ret = NoCall
    /\ ret' = [op |-> "jsonClass"] @@ jsonClass(input.toks, input.class)
    /\ UNCHANGED <<quiet, cacheVars, input, pc>>

NextClass == CallJsonClass

SpecClass == InitClass /\ [][NextClass]_vars

\* The values of the members of a class document, in order: each member is
\* a name followed by a scalar token or by a nested object.
RECURSIVE memberValues(_, _)
memberValues(toks, pos) ==
    IF toks[pos] = Delim("}") THEN <<>>
    ELSE IF toks[pos + 1] = Delim("{")
         THEN <<toks[pos + 1]>> \o memberValues(toks, jsonSkip(toks, pos + 1, 0, 0).pos)
    ELSE <<toks[pos + 1]>> \o memberValues(toks, pos + 2)

\* The type a member value is to be given.
Inferred(token) ==
    CASE token.t = "string" ->
            IF ParseColor(token.v).err = "nil" THEN "color" ELSE "string"
      [] token.t = "number" -> IF token.v.f = 0 THEN "int" ELSE "float"
      [] token.t = "bool" -> "bool"
      [] OTHER -> "class"

\* C18: decoding the members of an unregistered class never fails, and
\* every member is in the result with the type inferred from its value:
\* Color or String, Int or Float, Bool, Class.
C18_JsonClassInfersTypes ==
    (pc = "class" /\ ret.op = "jsonClass" /\ input.class = "") =>
        /\ ret.err = "nil"
        /\ LET values == memberValues(input.toks, 2)
           IN  \A i \in DOMAIN values :
                  \E k \in DOMAIN ret.props : ret.props[k].Type = Inferred(values[i])

\* ------------------------------------------------------------------------
\* Cache
\* ------------------------------------------------------------------------

\* Cache.Tileset and Cache.Template: the value stored for the key, if any.
CacheTileset(m, key) ==
    IF key \in DOMAIN m THEN [value |-> m[key], ok |-> TRUE]
    ELSE [value |-> Nil, ok |-> FALSE]
CacheTemplate(m, key) ==
    IF key \in DOMAIN m THEN [value |-> m[key], ok |-> TRUE]
    ELSE [value |-> Nil, ok |-> FALSE]

\* AddTileset that stores over a key that is taken.
AddTilesetOverwriting(m, key, tileset) ==
    IF tileset = Nil THEN [m |-> m, ok |-> FALSE]
    ELSE [m |-> (key :> tileset) @@ m, ok |-> TRUE]

\* Cache.AddTileset and Cache.AddTemplate.
AddTileset(m, key, tileset) ==
    IF tileset = Nil THEN [m |-> m, ok |-> FALSE]
    ELSE IF key \in DOMAIN m THEN [m |-> m, ok |-> FALSE]
    ELSE [m |-> (key :> tileset) @@ m, ok |-> TRUE]
AddTemplate(m, key, template) ==
    IF template = Nil THEN [m |-> m, ok |-> FALSE]
    ELSE IF key \in DOMAIN m THEN [m |-> m, ok |-> FALSE]
    ELSE [m |-> (key :> template) @@ m, ok |-> TRUE]

\* The keys and the values (pointers, Nil among them) handed to the cache.
Keys == {"a", "b"}
Pointers == 1 .. MaxPointers

\* NewCache().
InitCache ==
    /\ tilesets = <<>>
    /\ templates = <<>>
    /\ files = <<>>
    /\ allocated = 0
    /\ decodes = <<>>
    /\ IncludePaths = <<>>
    /\ active = <<>>
    /\ input = Nil
    /\ pc = "cache"
    /\ ret = NoCall
    /\ QuietState

\* What a call on the cache returned, with the map as it was before.
Called(op, key, value, ok, before) ==
    [op |-> op, key |-> key, value |-> value, ok |-> ok, before |-> before]

\* cache.AddTileset(key, tileset).
CallAddTileset ==
    /\ pc = "cache"
    /\ \E key \in Keys, tileset \in Pointers \cup {Nil} :
          LET r == AddTileset(tilesets, key, tileset)
          IN  /\ tilesets' = r.m
              /\ ret' = Called("AddTileset", key, tileset, r.ok, tilesets)
    /\ UNCHANGED <<quiet, input, pc, templates, files, allocated, decodes, pathVars>>

\* cache.AddTemplate(key, template).
CallAddTemplate ==
    /\ pc = "cache"
    /\ \E key \in Keys, template \in Pointers \cup {Nil} :
          LET r == AddTemplate(templates, key, template)
          IN  /\ templates' = r.m
              /\ ret' = Called("AddTemplate", key, template, r.ok, templates)
    /\ UNCHANGED <<quiet, input, pc, tilesets, files, allocated, decodes, pathVars>>

\* cache.Tileset(key).
CallCacheTileset ==
    /\ pc = "cache"
    /\ \E key \in Keys :
          LET r == CacheTileset(tilesets, key)
          IN  ret' = Called("Tileset", key, r.value, r.ok, tilesets)
    /\ UNCHANGED <<quiet, input, pc, cacheVars>>

\* cache.Template(key).
CallCacheTemplate ==
    /\ pc = "cache"
    /\ \E key \in Keys :
          LET r == CacheTemplate(templates, key)
          IN  ret' = Called("Template", key, r.value, r.ok, templates)
    /\ UNCHANGED <<quiet, input, pc, cacheVars>>

\* cache.Clear().
Clear ==
    /\ pc = "cache"
    /\ tilesets' = <<>>
    /\ templates' = <<>>
    /\ ret' = Called("Clear", "", Nil, TRUE, tilesets)
    /\ UNCHANGED <<quiet, input, pc, files, allocated, decodes, pathVars>>

NextCache ==
    CallAddTileset \/ CallAddTemplate \/ CallCacheTileset \/ CallCacheTemplate \/ Clear

SpecCache == InitCache /\ [][NextCache]_vars

\* The map a call on the cache was made on, as it is after the call.
MapOf(op) == IF op \in {"AddTileset", "Tileset"} THEN tilesets ELSE templates

\* C19: an insert for a key that holds a value, or of a nil value, returns
\* false and changes nothing; an insert of a value for an absent key returns
\* true and the key then looks up to that value, the other keys as before;
\* a lookup reports what the map holds; after Clear no key is found.
C19_CacheInsertsAtMostOnce ==
    /\ (pc = "cache" /\ ret.op \in {"AddTileset", "AddTemplate"}) =>
          IF ret.value = Nil \/ ret.key \in DOMAIN ret.before
          THEN ~ret.ok /\ MapOf(ret.op) = ret.before
          ELSE /\ ret.ok
               /\ DOMAIN MapOf(ret.op) = DOMAIN ret.before \cup {ret.key}
               /\ MapOf(ret.op)[ret.key] = ret.value
               /\ \A k \in DOMAIN ret.before : MapOf(ret.op)[k] = ret.before[k]
    /\ (pc = "cache" /\ ret.op \in {"Tileset", "Template"}) =>
          /\ ret.ok = (ret.key \in DOMAIN MapOf(ret.op))
          /\ ret.value = IF ret.ok THEN MapOf(ret.op)[ret.key] ELSE Nil
    /\ (pc = "cache" /\ ret.op = "Clear") =>
          \A k \in Keys : ~CacheTileset(tilesets, k).ok /\ ~CacheTemplate(templates, k).ok

\* An insert was refused for a key that holds another value.
C19_Witness ==
    /\ pc = "cache"
    /\ ret.op = "AddTileset"
    /\ ret.value # Nil
    /\ ret.key \in DOMAIN ret.before
    /\ ret.before[ret.key] # ret.value
    /\ ~ret.ok

\* ------------------------------------------------------------------------
\* Loading tilesets and templates through a cache
\* ------------------------------------------------------------------------

\* The absolute paths of the files, and the paths loads are asked for.
AbsPaths == {"/maps/tiles", "/maps/more"}
LoadPaths == {"tiles", "../maps/tiles", "more", "none"}

\* FindPath: the absolute path of the file the path names, or an error.
FindPath(path) ==
    CASE path \in {"tiles", "../maps/tiles"} -> [abs |-> "/maps/tiles", err |-> "nil"]
      [] path = "more" -> [abs |-> "/maps/more", err |-> "nil"]
      [] path = "level.tmx" -> [abs |-> "/maps/level.tmx", err |-> "nil"]
      [] path = "../tiles/t.tsx" -> [abs |-> "/tiles/t.tsx", err |-> "nil"]
      [] path = "../objs/o.tx" -> [abs |-> "/objs/o.tx", err |-> "nil"]
      [] OTHER -> [abs |-> path, err |-> "ErrNotExist"]

\* What a load returns, the cache map after it, and whether it decoded the file.
Loaded(value, err, abs, m, decoded) ==
    [value |-> value, err |-> err, abs |-> abs, m |-> m, decoded |-> decoded]

\* OpenTileset that does not look the path up in the cache.
OpenTilesetUncached(m, path, fresh) ==
    LET found == FindPath(path)
    IN  IF found.err # "nil" THEN Loaded(Nil, found.err, found.abs, m, FALSE)
        ELSE IF files[found.abs] # "ok" THEN Loaded(Nil, "decode", found.abs, m, TRUE)
        ELSE Loaded(fresh, "nil", found.abs, AddTileset(m, found.abs, fresh).m, TRUE)

\* OpenTileset with a cache: the cached instance of the resolved path, else
\* the decoded file, added to the cache when the decode succeeds.
OpenTileset(m, path, fresh) ==
    LET found == FindPath(path)
    IN  IF found.err # "nil" THEN Loaded(Nil, found.err, found.abs, m, FALSE)
        ELSE IF CacheTileset(m, found.abs).ok
             THEN Loaded(CacheTileset(m, found.abs).value, "nil", found.abs, m, FALSE)
        ELSE IF files[found.abs] # "ok" THEN Loaded(Nil, "decode", found.abs, m, TRUE)
        ELSE Loaded(fresh, "nil", found.abs, AddTileset(m, found.abs, fresh).m, TRUE)

\* OpenTemplate with a cache.
OpenTemplate(m, path, fresh) ==
    LET found == FindPath(path)
    IN  IF found.err # "nil" THEN Loaded(Nil, found.err, found.abs, m, FALSE)
        ELSE IF CacheTemplate(m, found.abs).ok
             THEN Loaded(CacheTemplate(m, found.abs).value, "nil", found.abs, m, FALSE)
        ELSE IF files[found.abs] # "ok" THEN Loaded(Nil, "decode", found.abs, m, TRUE)
        ELSE Loaded(fresh, "nil", found.abs, AddTemplate(m, found.abs, fresh).m, TRUE)

\* A new cache and files that decode or do not.
InitLoads ==
    /\ tilesets = <<>>
    /\ templates = <<>>
    /\ files \in [AbsPaths -> {"ok", "bad"}]
    /\ allocated = 0
    /\ decodes = [kind \in {"tileset", "template"} |-> [abs \in AbsPaths |-> 0]]
    /\ IncludePaths = <<>>
    /\ active = <<>>
    /\ input = Nil
    /\ pc = "loads"
    /\ ret = NoCall
    /\ QuietState

\* The history after a load: one more decode of the file if it was decoded.
Counted(kind, r) ==
    IF r.decoded THEN [decodes EXCEPT ![kind][r.abs] = @ + 1] ELSE decodes

\* What a load returned, with the cache map as it was before.
Load(op, path, r, before) ==
    [op |-> op, path |-> path, abs |-> r.abs, value |-> r.value, err |-> r.err,
     before |-> before]

\* OpenTileset(path, format, cache).
CallOpenTileset ==
    /\ pc = "loads"
    /\ allocated < MaxLoads
    /\ \E path \in LoadPaths :
          LET r == OpenTileset(tilesets, path, allocated + 1)
          IN  /\ tilesets' = r.m
              /\ allocated' = IF r.decoded THEN allocated + 1 ELSE allocated
              /\ decodes' = Counted("tileset", r)
              /\ ret' = Load("OpenTileset", path, r, tilesets)
    /\ UNCHANGED <<quiet, input, pc, templates, files, pathVars>>

\* OpenTemplate(path, format, cache).
CallOpenTemplate ==
    /\ pc = "loads"
    /\ allocated < MaxLoads
    /\ \E path \in LoadPaths :
          LET r == OpenTemplate(templates, path, allocated + 1)
          IN  /\ templates' = r.m
              /\ allocated' = IF r.decoded THEN allocated + 1 ELSE allocated
              /\ decodes' = Counted("template", r)
              /\ ret' = Load("OpenTemplate", path, r, templates)
    /\ UNCHANGED <<quiet, input, pc, tilesets, files, pathVars>>

NextLoads == CallOpenTileset \/ CallOpenTemplate

SpecLoads == InitLoads /\ [][NextLoads]_vars

\* The cache map of a kind of load, and the kind of a load.
CacheOf(op) == IF op = "OpenTileset" THEN tilesets ELSE templates
KindOf(op) == IF op = "OpenTileset" THEN "tileset" ELSE "template"

\* C20: a successful load returns the instance the cache holds for the
\* resolved path, which is the one already held if there was one; what the
\* cache holds is never replaced; a file that decodes is decoded at most
\* once; a load that fails leaves the cache as it was.
C20_LoadsShareCachedInstance ==
    pc = "loads" =>
        /\ \A kind \in {"tileset", "template"}, abs \in AbsPaths :
              files[abs] = "ok" => decodes[kind][abs] <= 1
        /\ \A abs \in DOMAIN tilesets : files[abs] = "ok" /\ decodes["tileset"][abs] = 1
        /\ \A abs \in DOMAIN templates : files[abs] = "ok" /\ decodes["template"][abs] = 1
        /\ ret.op \in {"OpenTileset", "OpenTemplate"} =>
              /\ \A k \in DOMAIN ret.before : CacheOf(ret.op)[k] = ret.before[k]
              /\ ret.err # "nil" => CacheOf(ret.op) = ret.before
              /\ ret.err = "nil" =>
                    /\ ret.abs \in DOMAIN CacheOf(ret.op)
                    /\ ret.value = CacheOf(ret.op)[ret.abs]

\* A load under another spelling of a path returned the cached instance.
C20_Witness ==
    /\ pc = "loads"
    /\ ret.op = "OpenTileset"
    /\ ret.path = "../maps/tiles"
    /\ ret.err = "nil"
    /\ ret.abs \in DOMAIN ret.before
    /\ ret.value = ret.before[ret.abs]

\* ------------------------------------------------------------------------
\* Images and the image callback
\* ------------------------------------------------------------------------

\* The zero Image value.
ZeroImage == [Source |-> "", Transparency |-> Zero, Size |-> [Width |-> 0, Height |-> 0]]

\* What the decode of an image element leaves: the Image, the Images handed
\* to ImageCallback in call order, and the error.
Imaged(image, calls, err) == [image |-> image, calls |-> calls, err |-> err]

\* Image.UnmarshalXML: every attribute is stored, the children are read up
\* to the end tag, and then ImageCallback, if set, gets the Image.
ImageUnmarshalXML(doc) ==
    LET color == IF doc.trans = <<>> THEN [color |-> Zero, err |-> "nil"]
                 ELSE ParseColor(doc.trans)
        img == [Source |-> doc.source, Transparency |-> color.color,
                Size |-> [Width |-> doc.width, Height |-> doc.height]]
    IN  IF color.err # "nil" THEN Imaged(ZeroImage, <<>>, color.err)
        ELSE Imaged(img, IF doc.callback THEN <<img>> ELSE <<>>, "nil")

\* Tileset.UnmarshalJSON and Tile.UnmarshalJSON: "image", "imagewidth",
\* "imageheight" (and for a tileset "transparentcolor") are stored into the
\* Image one member at a time; ImageCallback is not called.
\* jsonLayer.toLayer for an image layer: an Image of the source and the
\* transparent colour; ImageCallback is not called.
ImageUnmarshalJSON(doc) ==
    LET color == IF doc.trans = <<>> \/ doc.holder = "tile"
                 THEN [color |-> Zero, err |-> "nil"]
                 ELSE ParseColor(doc.trans)
        size == IF doc.holder = "imagelayer" THEN [Width |-> 0, Height |-> 0]
                ELSE [Width |-> doc.width, Height |-> doc.height]
        img == [Source |-> doc.source, Transparency |-> color.color, Size |-> size]
    IN  IF color.err # "nil" THEN Imaged(ZeroImage, <<>>, color.err)
        ELSE Imaged(img, <<>>, "nil")

\* The image elements decoded: where the image is, its fields, and whether
\* ImageCallback is set.
ImageHolders == {"tileset", "tile", "imagelayer"}
ImageColors == {<<>>, <<"#", "f", "f", "0", "0", "8", "0">>, <<"#", "x">>}
ImageDocs ==
    [holder : ImageHolders, format : {"xml", "json"}, callback : BOOLEAN,
     source : {"tiles.png", "more.png"}, width : 0 .. MaxDim, height : 0 .. MaxDim,
     trans : ImageColors]

InitImage ==
    /\ input \in ImageDocs
    /\ pc = "image"
    /\ ret = NoCall
    /\ IdleCache
    /\ QuietState

\* The <image> child of a tileset, a tile or an image layer is decoded.
DecodeImageXML ==
    /\ pc = "image"
    /\ ret = NoCall
    /\ input.format = "xml"
    /\ ret' = [op |-> "image"] @@ ImageUnmarshalXML(input)
    /\ UNCHANGED <<quiet, input, pc, cacheVars>>

\* The image members of a JSON tileset, tile or image layer are decoded.
DecodeImageJSON ==
    /\ pc = "image"
    /\ ret = NoCall
    /\ input.format = "json"
    /\ ret' = [op |-> "image"] @@ ImageUnmarshalJSON(input)
    /\ UNCHANGED <<quiet, input, pc, cacheVars>>

NextImage == DecodeImageXML \/ DecodeImageJSON

SpecImage == InitImage /\ [][NextImage]_vars

\* C21: when ImageCallback is set, the decode of an image element, in XML
\* and in JSON, calls it exactly once, with the Image as it is at the end.
C21_ImageCallbackOncePerImage ==
    (pc = "image" /\ ret.op = "image" /\ ret.err = "nil" /\ input.callback) =>
        ret.calls = <<ret.image>>

\* The same for the XML decoder alone.
C21_XmlCallbackOnce ==
    (pc = "image" /\ ret.op = "image" /\ ret.err = "nil" /\ input.callback
       /\ input.format = "xml") =>
        ret.calls = <<ret.image>>

\* ------------------------------------------------------------------------
\* Properties: typed access
\* ------------------------------------------------------------------------

\* Property values by their Go type. A float64 is held as a count of halves
\* (5 is 2.5), an int as itself.
IntValue(n) == [t |-> "int", n |-> n]
FloatValue(halves) == [t |-> "float64", n |-> halves]
OtherValue(t) == [t |-> t, n |-> 0]

\* int(f) of a float64: the fraction is dropped, toward zero.
truncate(halves) == IF halves >= 0 THEN halves \div 2 ELSE 0 - ((0 - halves) \div 2)

\* propValue[T]: the value of the named property if the map is not nil, has
\* the name, and the value's dynamic type is T; else the zero T and false.
propValue(T, p, name) ==
    IF p.nil THEN [value |-> 0, ok |-> FALSE]
    ELSE IF name \in DOMAIN p.m /\ p.m[name].t = T
    THEN [value |-> p.m[name].n, ok |-> TRUE]
    ELSE [value |-> 0, ok |-> FALSE]

\* mustValue[T]: propValue[T], or def when that reports not found.
mustValue(T, p, name, def) ==
    IF propValue(T, p, name).ok THEN propValue(T, p, name).value ELSE def

\* Properties.GetInt and Properties.GetFloat.
GetInt(p, name) ==
    IF propValue("int", p, name).ok
    THEN [value |-> propValue("int", p, name).value, ok |-> TRUE]
    ELSE IF propValue("float64", p, name).ok
    THEN [value |-> truncate(propValue("float64", p, name).value), ok |-> TRUE]
    ELSE [value |-> 0, ok |-> FALSE]
GetFloat(p, name) ==
    IF propValue("float64", p, name).ok
    THEN [value |-> propValue("float64", p, name).value, ok |-> TRUE]
    ELSE IF propValue("int", p, name).ok
    THEN [value |-> 2 * propValue("int", p, name).value, ok |-> TRUE]
    ELSE [value |-> 0, ok |-> FALSE]

\* Properties.MustInt and Properties.MustFloat.
MustInt(p, name, def) == mustValue("int", p, name, def)
MustFloat(p, name, def) == mustValue("float64", p, name, def)

\* The property maps asked, the names asked for and the default handed in.
PropNames == {"x", "y"}
PropValues ==
    {IntValue(3), IntValue(0 - 2), FloatValue(5), FloatValue(0 - 3), FloatValue(4),
     OtherValue("string"), OtherValue("bool")}
PropMaps ==
    {[nil |-> TRUE, m |-> <<>>]}
    \cup {[nil |-> FALSE, m |-> m] :
             m \in UNION {[S -> PropValues] : S \in SUBSET PropNames}}
DefaultInt == 7

InitProps ==
    /\ input \in [p : PropMaps, name : PropNames \cup {"z"}]
    /\ pc = "props"
    /\ ret = NoCall
    /\ IdleCache
    /\ QuietState

\* p.MustInt(name, def).
CallMustInt ==
    /\ pc = "props"
    /\ ret' = [op |-> "MustInt", value |-> MustInt(input.p, input.name, DefaultInt)]
    /\ UNCHANGED <<quiet, input, pc, cacheVars>>

\* p.MustFloat(name, def).
CallMustFloat ==
    /\ pc = "props"
    /\ ret' = [op |-> "MustFloat", value |-> MustFloat(input.p, input.name, 2 * DefaultInt)]
    /\ UNCHANGED <<quiet, input, pc, cacheVars>>

NextProps == CallMustInt \/ CallMustFloat

SpecProps == InitProps /\ [][NextProps]_vars

\* C22: MustInt returns what GetInt returns when GetInt reports found (an
\* int, or a float converted to int) and def otherwise; MustFloat likewise
\* with GetFloat.
C22_MustAgreesWithGet ==
    /\ (pc = "props" /\ ret.op = "MustInt") =>
          ret.value = IF GetInt(input.p, input.name).ok
                      THEN GetInt(input.p, input.name).value ELSE DefaultInt
    /\ (pc = "props" /\ ret.op = "MustFloat") =>
          ret.value = IF GetFloat(input.p, input.name).ok
                      THEN GetFloat(input.p, input.name).value ELSE 2 * DefaultInt

\* The same where the property holds a value of the type asked for, or no
\* number at all.
C22_MustOfSameType ==
    /\ (pc = "props" /\ ret.op = "MustInt"
          /\ ~propValue("float64", input.p, input.name).ok) =>
          ret.value = IF GetInt(input.p, input.name).ok
                      THEN GetInt(input.p, input.name).value ELSE DefaultInt
    /\ (pc = "props" /\ ret.op = "MustFloat"
          /\ ~propValue("int", input.p, input.name).ok) =>
          ret.value = IF GetFloat(input.p, input.name).ok
                      THEN GetFloat(input.p, input.name).value ELSE 2 * DefaultInt

\* ------------------------------------------------------------------------
\* Tile id masking
\* ------------------------------------------------------------------------

\* 2^k for k in 0 .. 15.
RECURSIVE Pow2(_)
Pow2(k) == IF k = 0 THEN 1 ELSE 2 * Pow2(k - 1)

\* The gids masked: every combination of the four top bits over index bits
\* all clear, lowest set, all set; and each of the 32 bits alone.
MaskGids ==
    {TileID(flags * 4096 + high, low) :
        flags \in 0 .. 15, high \in {0, 1, 4095}, low \in {0, 1, Half - 1}}
    \cup {TileID(Pow2(k), 0) : k \in 0 .. 15}
    \cup {TileID(0, Pow2(k)) : k \in 0 .. 15}

InitMask ==
    /\ input \in [gid : MaskGids]
    /\ pc = "mask"
    /\ ret = NoCall
    /\ IdleCache
    /\ QuietState

\* gid & ClearMask, gid & ^ClearMask, and the mask applied a second time.
ApplyClearMask ==
    /\ pc = "mask"
    /\ ret = NoCall
    /\ ret' = [op |-> "mask",
               clean |-> And(input.gid, ClearMask),
               flags |-> And(input.gid, Not(ClearMask)),
               again |-> And(And(input.gid, ClearMask), ClearMask)]
    /\ UNCHANGED <<quiet, input, pc, cacheVars>>

NextMask == ApplyClearMask

SpecMask == InitMask /\ [][NextMask]_vars

\* C23: the masked part and the flag part of a gid give the gid back, the
\* mask applied twice is the mask applied once, ClearMask is the low 28
\* bits, and each flag is one of the top four bits, outside the mask.
C23_ClearMaskSplitsGid ==
    /\ ClearMask = TileID(4095, Half - 1)
    /\ \A flag \in {FlipH, FlipV, FlipD, RotateCCW} :
          And(flag, ClearMask) = Zero /\ And(flag, Not(ClearMask)) = flag
    /\ Or(Or(Or(FlipH, FlipV), FlipD), RotateCCW) = TileID(15 * 4096, 0)
    /\ (pc = "mask" /\ ret.op = "mask") =>
          /\ Or(ret.clean, ret.flags) = input.gid
          /\ ret.again = ret.clean
          /\ ret.clean.h < 4096
          /\ ret.clean.h = input.gid.h % 4096
          /\ ret.clean.l = input.gid.l
          /\ ret.flags.l = 0
          /\ ret.flags.h = input.gid.h - (input.gid.h % 4096)

\* A gid with flag bits and index bits was masked.
C23_Witness ==
    /\ pc = "mask"
    /\ ret.op = "mask"
    /\ ret.flags = TileID(15 * 4096, 0)
    /\ ret.clean = TileID(4095, Half - 1)

\* ------------------------------------------------------------------------
\* Payload trimming
\* ------------------------------------------------------------------------

\* The bytes of the payloads: an ASCII letter, an ASCII space, the lead byte
\* 0xC2, and the continuation bytes 0x85 (U+0085, white space) and 0xA9
\* (U+00A9, not white space) that may follow it.
PayloadBytes == {"a", " ", "C2", "85", "A9"}

\* A decoded rune: whether unicode.IsSpace holds of it, and its width. A
\* byte that starts no valid encoding is RuneError of width 1.
Rune(space, n) == [space |-> space, n |-> n]

\* utf8.DecodeRune(payload[start:]), start counted from 0.
DecodeRune(payload, start) ==
    LET b == payload[start + 1]
    IN  IF b = " " THEN Rune(TRUE, 1)
        ELSE IF b = "C2" /\ start + 2 <= Len(payload) /\ payload[start + 2] \in {"85", "A9"}
        THEN Rune(payload[start + 2] = "85", 2)
        ELSE Rune(FALSE, 1)

\* utf8.DecodeLastRune(payload[:end]).
DecodeLastRune(payload, end) ==
    IF end = 0 THEN Rune(FALSE, 0)
    ELSE LET b == payload[end]
         IN  IF b = " " THEN Rune(TRUE, 1)
             ELSE IF b \in {"85", "A9"} /\ end >= 2 /\ payload[end - 1] = "C2"
             THEN Rune(b = "85", 2)
             ELSE Rune(FALSE, 1)

\* The first loop of trimPayload: start after the leading white space.
RECURSIVE trimStart(_, _)
trimStart(payload, start) ==
    IF start < Len(payload) /\ DecodeRune(payload, start).space
    THEN trimStart(payload, start + DecodeRune(payload, start).n)
    ELSE start

\* The second loop of trimPayload: from end = len(payload) - 1, while
\* end > start and the last rune of payload[:end] is white space, end goes
\* back by its width.
RECURSIVE trimEnd(_, _, _)
trimEnd(payload, start, end) ==
    IF end > start /\ DecodeLastRune(payload, end).space
    THEN trimEnd(payload, start, end - DecodeLastRune(payload, end).n)
    ELSE end

\* trimPayload: payload[start : end+1].
trimPayload(payload) ==
    LET start == trimStart(payload, 0)
        end == trimEnd(payload, start, Len(payload) - 1)
    IN  SubSeq(payload, start + 1, end + 1)

Payloads == UNION {[1 .. n -> PayloadBytes] : n \in 0 .. MaxText}

InitTrim ==
    /\ input \in [payload : Payloads]
    /\ pc = "trim"
    /\ ret = NoCall
    /\ IdleCache
    /\ QuietState

\* trimPayload(payload).
CallTrimPayload ==
    /\ pc = "trim"
    /\ ret = NoCall
    /\ ret' = [op |-> "trimPayload", value |-> trimPayload(input.payload)]
    /\ UNCHANGED <<quiet, input, pc, cacheVars>>

NextTrim == CallTrimPayload

SpecTrim == InitTrim /\ [][NextTrim]_vars

\* The payload without its leading white space runes, and without its
\* trailing ones.
RECURSIVE DropLeading(_)
DropLeading(s) ==
    IF Len(s) > 0 /\ DecodeRune(s, 0).space
    THEN DropLeading(SubSeq(s, DecodeRune(s, 0).n + 1, Len(s)))
    ELSE s
RECURSIVE DropTrailing(_)
DropTrailing(s) ==
    IF Len(s) > 0 /\ DecodeLastRune(s, Len(s)).space
    THEN DropTrailing(SubSeq(s, 1, Len(s) - DecodeLastRune(s, Len(s)).n))
    ELSE s

\* C24: the result is the payload without its leading and trailing white
\* space runes: it starts and ends with no white space rune, is empty for a
\* payload of white space only, and trimming it again changes nothing.
C24_TrimPayloadStripsBothEnds ==
    (pc = "trim" /\ ret.op = "trimPayload") =>
        /\ ret.value = DropTrailing(DropLeading(input.payload))
        /\ Len(ret.value) > 0 =>
              /\ ~DecodeRune(ret.value, 0).space
              /\ ~DecodeLastRune(ret.value, Len(ret.value)).space
        /\ DropLeading(input.payload) = <<>> => ret.value = <<>>
        /\ trimPayload(ret.value) = ret.value

\* The leading side alone: the result starts where the leading white space
\* ends, and a payload of white space only gives the empty result.
C24_LeadingStripped ==
    (pc = "trim" /\ ret.op = "trimPayload") =>
        /\ Len(ret.value) > 0 => ~DecodeRune(ret.value, 0).space
        /\ DropLeading(input.payload) = <<>> => ret.value = <<>>
        /\ \E n \in 0 .. Len(input.payload) :
              ret.value = SubSeq(DropLeading(input.payload), 1, n)

\* ------------------------------------------------------------------------
\* Tile layers with chunks: reading and post-processing the chunk data
\* ------------------------------------------------------------------------

\* A <chunk> of a document: its size, and either the tile array its CSV
\* payload is written from, or its explicit list of tiles.
ChunkDoc(w, h, kind, tiles) == [Width |-> w, Height |-> h, kind |-> kind, tiles |-> tiles]

\* The chunks written: payloads of every content for the chunk's area, and
\* explicit lists one short of the area, of the area, and one over.
PayloadChunks ==
    UNION {{ChunkDoc(w, h, "payload", t) : t \in [1 .. w * h -> {U32(1), InvalidID}]} :
              w \in 1 .. MaxDim, h \in 1 .. MaxDim}
ListedChunks ==
    UNION {{ChunkDoc(w, h, "tiles", [i \in 1 .. n |-> U32(i)]) :
               n \in {w * h - 1, w * h, w * h + 1}} :
              w \in 1 .. MaxDim, h \in 1 .. MaxDim}
ChunkDocLists ==
    UNION {[1 .. n -> PayloadChunks] \cup [1 .. n -> ListedChunks] : n \in 1 .. MaxGrid}

\* The chunk loop of TileData.UnmarshalXML for one <chunk>: Tiles of
\* Width*Height entries, the <tile> children stored by index (past the end
\* the index is out of range), else the trimmed payload kept for later.
xmlChunk(doc, k) ==
    LET area == doc.Width * doc.Height
        base == [X |-> (k - 1) * doc.Width, Y |-> 0, Width |-> doc.Width, Height |-> doc.Height]
    IN  IF Len(doc.tiles) > 0 /\ doc.kind = "tiles"
        THEN [chunk |-> base @@ [Tiles |-> [i \in 1 .. area |->
                                    IF i <= Len(doc.tiles) THEN doc.tiles[i] ELSE Zero],
                                 tileData |-> <<>>],
              panic |-> Len(doc.tiles) > area]
        ELSE [chunk |-> base @@ [Tiles |-> MakeTiles(area),
                                 tileData |-> IF doc.kind = "tiles" THEN <<>>
                                              ELSE trimPayload(EncodeCSV(doc.tiles))],
              panic |-> FALSE]

\* A tile layer element whose <data> holds chunks, about to be read.
InitChunkData ==
    /\ input \in [format : {"xml"}, chunks : ChunkDocLists]
    /\ Encoding = IF input.chunks[1].kind = "payload" THEN "csv" ELSE "none"
    /\ orig = [k \in DOMAIN input.chunks |-> input.chunks[k].tiles]
    /\ pc = "chunkdata"
    /\ ret = NoCall
    /\ Compression = "none"
    /\ window = 0
    /\ Chunks = <<>>
    /\ Tiles = <<>>
    /\ tileData = <<>>
    /\ Tilesets = <<>>
    /\ Width = 0
    /\ Height = 0
    /\ ChunkSize = ZeroSize
    /\ chunkSz = ZeroSize
    /\ chunkCols = 0
    /\ chunkRows = 0
    /\ InitLayers
    /\ IdleObjects
    /\ IdleCache

\* TileData.UnmarshalXML on a <data> with chunks.
ReadChunksXML ==
    /\ pc = "chunkdata"
    /\ input.format = "xml"
    /\ Chunks' = [k \in DOMAIN input.chunks |-> xmlChunk(input.chunks[k], k).chunk]
    /\ pc' = IF \E k \in DOMAIN input.chunks : xmlChunk(input.chunks[k], k).panic
             THEN "panic" ELSE "read"
    /\ UNCHANGED <<restVars, layerVars, Tilesets, Width, Height, Encoding, Compression, window,
                   Tiles, tileData, ChunkSize, chunkSz, chunkCols, chunkRows, ret, orig>>

NextChunkData == ReadChunksXML \/ ProcessTiles

SpecChunkData == InitChunkData /\ [][NextChunkData]_vars

\* The document is one the claim accepts: no explicit list of a length
\* other than the chunk's area.
WellSized ==
    \A k \in DOMAIN input.chunks :
        input.chunks[k].kind = "tiles" =>
            Len(input.chunks[k].tiles) = input.chunks[k].Width * input.chunks[k].Height

\* C25: once the layer is read and post-processed, every chunk holds
\* Width x Height tiles with the values of its own payload (or list) and no
\* raw payload, the flat Tiles array is empty, and an explicit list of
\* another length is reported as an error.
C25_ChunksDecodedIndependently ==
    /\ (pc \in {"decoded", "failed", "panic"} /\ input.format = "xml" /\ WellSized) =>
          /\ pc = "decoded"
          /\ Len(Chunks) = Len(input.chunks)
          /\ Tiles = <<>>
          /\ \A k \in DOMAIN Chunks :
                /\ Len(Chunks[k].Tiles) = Chunks[k].Width * Chunks[k].Height
                /\ Chunks[k].Tiles = orig[k]
                /\ Chunks[k].tileData = <<>>
    /\ (pc \in {"decoded", "failed", "panic"} /\ input.format = "xml" /\ ~WellSized) =>
          pc = "failed"

\* What does hold: chunks given as explicit lists of the right length are
\* kept as they are, and the flat Tiles array stays empty.
C25_ListedChunksKept ==
    (pc \in {"decoded", "failed", "panic"} /\ input.format = "xml" /\ WellSized
       /\ input.chunks[1].kind = "tiles") =>
          /\ pc = "decoded"
          /\ Tiles = <<>>
          /\ \A k \in DOMAIN Chunks : Chunks[k].Tiles = orig[k] /\ Chunks[k].tileData = <<>>

\* ------------------------------------------------------------------------
\* Layers: the fields common to every kind, in XML and in JSON
\* ------------------------------------------------------------------------

\* The attributes of a layer element tracked here, and the value a document
\* writes for each. Opacity is held in hundredths.
LayerAttrs == {"name", "class", "width", "height", "opacity", "visible"}
LayerAttrValue(name) ==
    CASE name = "name" -> [s |-> "ground", n |-> 0, b |-> FALSE]
      [] name = "class" -> [s |-> "solid", n |-> 0, b |-> FALSE]
      [] name = "width" -> [s |-> "", n |-> 3, b |-> FALSE]
      [] name = "height" -> [s |-> "", n |-> 4, b |-> FALSE]
      [] name = "opacity" -> [s |-> "", n |-> 50, b |-> FALSE]
      [] OTHER -> [s |-> "", n |-> 0, b |-> FALSE]

\* The attribute lists of the documents: no attribute twice, in any order.
LayerAttrLists ==
    {s \in UNION {[1 .. n -> LayerAttrs] : n \in 0 .. MaxAttrs} :
        \A i \in DOMAIN s, j \in DOMAIN s : i # j => s[i] # s[j]}

\* The zero baseLayer, with the LayerType 0 named "zero".
ZeroLayer ==
    [layerType |-> "zero", Name |-> "", Class |-> "", Width |-> 0, Height |-> 0,
     Opacity |-> 0, Visible |-> FALSE]

\* baseLayer.initDefaults.
initDefaults(layer, lt) == [layer EXCEPT !.layerType = lt, !.Opacity = 100, !.Visible = TRUE]

\* baseLayer.xmlAttr for one attribute: "name" and "class" are both stored
\* in Class.
xmlAttr(layer, name) ==
    LET v == LayerAttrValue(name)
    IN  CASE name = "name" -> [layer EXCEPT !.Class = v.s]
          [] name = "class" -> [layer EXCEPT !.Class = v.s]
          [] name = "width" -> [layer EXCEPT !.Width = v.n]
          [] name = "height" -> [layer EXCEPT !.Height = v.n]
          [] name = "opacity" -> [layer EXCEPT !.Opacity = v.n]
          [] OTHER -> [layer EXCEPT !.Visible = v.b]

\* The attribute loop of a layer's UnmarshalXML.
RECURSIVE xmlAttrs(_, _, _)
xmlAttrs(layer, attrs, i) ==
    IF i > Len(attrs) THEN layer ELSE xmlAttrs(xmlAttr(layer, attrs[i]), attrs, i + 1)

\* The UnmarshalXML of each kind up to the end of its attribute loop:
\* TileLayer calls initDefaults(LayerTile), ObjectLayer calls
\* initDefaults(LayerImage), ImageLayer and GroupLayer call nothing.
LayerUnmarshalXML(kind, attrs) ==
    LET start == CASE kind = "tile" -> initDefaults(ZeroLayer, "tile")
                   [] kind = "object" -> initDefaults(ZeroLayer, "image")
                   [] OTHER -> ZeroLayer
    IN  xmlAttrs(start, attrs, 1)

\* jsonLayer.UnmarshalJSON for one member.
jsonMember(layer, name) ==
    LET v == LayerAttrValue(name)
    IN  CASE name = "name" -> [layer EXCEPT !.Name = v.s]
          [] name = "class" -> [layer EXCEPT !.Class = v.s]
          [] name = "width" -> [layer EXCEPT !.Width = v.n]
          [] name = "height" -> [layer EXCEPT !.Height = v.n]
          [] name = "opacity" -> [layer EXCEPT !.Opacity = v.n]
          [] OTHER -> [layer EXCEPT !.Visible = v.b]

RECURSIVE jsonMembers(_, _, _)
jsonMembers(layer, attrs, i) ==
    IF i > Len(attrs) THEN layer ELSE jsonMembers(jsonMember(layer, attrs[i]), attrs, i + 1)

\* jsonLayer.UnmarshalJSON and jsonLayer.toLayer: Opacity 1.0 and Visible
\* true before the members, "type" parsed into Type, and the fields copied
\* into the baseLayer of the concrete layer.
LayerUnmarshalJSON(kind, attrs) ==
    jsonMembers([ZeroLayer EXCEPT !.layerType = kind, !.Opacity = 100, !.Visible = TRUE],
                attrs, 1)

\* The layer elements decoded. A JSON tile layer is left out: its decode
\* ends in TileData.postProcess.
LayerKinds == {"tile", "image", "object", "group"}

InitLayerDoc ==
    /\ input \in {d \in [kind : LayerKinds, format : {"xml", "json"}, attrs : LayerAttrLists] :
                     d.format = "json" => d.kind # "tile"}
    /\ pc = "layer"
    /\ ret = NoCall
    /\ IdleCache
    /\ QuietState

\* The UnmarshalXML of the layer's kind.
DecodeLayerXML ==
    /\ pc = "layer"
    /\ ret = NoCall
    /\ input.format = "xml"
    /\ ret' = [op |-> "layer", layer |-> LayerUnmarshalXML(input.kind, input.attrs)]
    /\ UNCHANGED <<quiet, input, pc, cacheVars>>

\* jsonLayer.UnmarshalJSON, then toLayer.
DecodeLayerJSON ==
    /\ pc = "layer"
    /\ ret = NoCall
    /\ input.format = "json"
    /\ ret' = [op |-> "layer", layer |-> LayerUnmarshalJSON(input.kind, input.attrs)]
    /\ UNCHANGED <<quiet, input, pc, cacheVars>>

NextLayerDoc == DecodeLayerXML \/ DecodeLayerJSON

SpecLayerDoc == InitLayerDoc /\ [][NextLayerDoc]_vars

\* Whether the document carries the attribute.
Carries(name) == \E i \in DOMAIN input.attrs : input.attrs[i] = name

\* The layer the document describes.
Described ==
    [layerType |-> input.kind,
     Name |-> IF Carries("name") THEN "ground" ELSE "",
     Class |-> IF Carries("class") THEN "solid" ELSE "",
     Width |-> IF Carries("width") THEN 3 ELSE 0,
     Height |-> IF Carries("height") THEN 4 ELSE 0,
     Opacity |-> IF Carries("opacity") THEN 50 ELSE 100,
     Visible |-> ~Carries("visible")]

\* C26: in XML and in JSON the decoded layer has the type of its kind, the
\* name in Name and the class in Class, the width and height as written,
\* and Opacity 1.0 and Visible true where the document gives neither.
C26_LayerDecodersAgree ==
    (pc = "layer" /\ ret.op = "layer") => ret.layer = Described

\* The same for the JSON decoder alone.
C26_JsonLayerAsDescribed ==
    (pc = "layer" /\ ret.op = "layer" /\ input.format = "json") => ret.layer = Described

\* The same for the width and height in either encoding.
C26_RectAsWritten ==
    (pc = "layer" /\ ret.op = "layer") =>
        ret.layer.Width = Described.Width /\ ret.layer.Height = Described.Height

\* ------------------------------------------------------------------------
\* Objects: the explicit-set mask in XML and in JSON
\* ------------------------------------------------------------------------

\* The flags of what a document of an object specifies: its attributes, the
\* shape kind and points of its shape element, the sub-fields of its <text>.
Specified(doc) ==
    doc.fields
    \cup (IF doc.shape \in {"point", "ellipse", "polygon"} THEN {"kind"} ELSE {})
    \cup (IF doc.shape = "polygon" THEN {"points"} ELSE {})
    \cup (IF doc.shape = "text" THEN doc.text ELSE {})

\* The object and the heap that the documents of the run decode to in the
\* given encoding: the template's object, then the object and inherit().
DecodedAs(format) ==
    LET t == decodeObject("tmpl", docs.tmpl, format, FALSE, 1)
        heap == IF docs.template THEN withText("tmpl", docs.tmpl, format, <<>>, 1) ELSE <<>>
        o == decodeObject("obj", docs.obj, format, docs.template, 2)
    IN  inherit(o, t, withText("obj", docs.obj, format, heap, 2), 2)

\* C27: the decoded object carries exactly the flags of what its document
\* specifies, in XML and in JSON; a template text that sets underline has
\* the underline bit and no italic bit it did not set; and the object after
\* inherit() is the same in either encoding.
C27_FlagsFilledAlike ==
    pc = "decoded" =>
        /\ obj = DecodedAs(docs.format).obj
        /\ obj.flags = Specified(docs.obj)
        /\ (docs.template /\ docs.tmpl.shape = "text") =>
              /\ ("underline" \in texts[1].Style) = ("underline" \in docs.tmpl.text)
              /\ ("italic" \in texts[1].Style) = ("italic" \in docs.tmpl.text)
        /\ DecodedAs("xml") = DecodedAs("json")

\* The same flags for the XML decoder alone.
C27_XmlFlagsAsSpecified ==
    (pc = "decoded" /\ docs.format = "xml") =>
        /\ obj = DecodedAs("xml").obj
        /\ obj.flags = Specified(docs.obj)
        /\ (docs.template /\ docs.tmpl.shape = "text") =>
              /\ ("underline" \in texts[1].Style) = ("underline" \in docs.tmpl.text)
              /\ ("italic" \in texts[1].Style) = ("italic" \in docs.tmpl.text)

\* ------------------------------------------------------------------------
\* MapTileset.UnmarshalXML: the token loops
\* ------------------------------------------------------------------------

\* The tokens of the decoder after the <tileset> start tag: what stands
\* between the tags (text, or a child element, read as one), the end tag,
\* and what follows it in the enclosing element, if anything.
TilesetContents == UNION {[1 .. n -> {"text", "child"}] : n \in 0 .. MaxContent}
AfterTileset == {<<>>, <<"text">>, <<"child">>, <<"parentend">>}
TilesetDocs ==
    {[source |-> s, loads |-> l, stream |-> c \o <<"end">> \o a] :
        s \in BOOLEAN, l \in BOOLEAN, c \in TilesetContents, a \in AfterTileset}

\* d.Token() at a position of the stream: the token, or io.EOF past the end.
Token(stream, pos) ==
    IF pos <= Len(stream) THEN [token |-> stream[pos], err |-> "nil"]
    ELSE [token |-> "none", err |-> "EOF"]

\* Where a decode stands: the tokens read so far, the last one with its
\* error, the loop passes made and the tokens read in loop passes.
Reading(pos, t, passes, reads) ==
    [op |-> "MapTileset", pos |-> pos, token |-> t.token, err |-> t.err,
     passes |-> passes, reads |-> reads]

InitMapTileset ==
    /\ input \in {d \in TilesetDocs : ~d.source => d.loads}
    /\ pc = "maptileset"
    /\ ret = NoCall
    /\ IdleCache
    /\ QuietState

\* The attribute loop, then for an embedded tileset the call of
\* Tileset.UnmarshalXML up to its first d.Token(), for an external one
\* OpenTileset.
ReadTilesetAttrs ==
    /\ pc = "maptileset"
    /\ IF input.source
       THEN /\ ret' = Reading(0, [token |-> "none", err |-> IF input.loads THEN "nil" ELSE "open"],
                              0, 0)
            /\ pc' = IF input.loads THEN "consume" ELSE "returned"
       ELSE /\ ret' = Reading(1, Token(input.stream, 1), 0, 0)
            /\ pc' = "tileset"
    /\ UNCHANGED <<quiet, input, cacheVars>>

\* Tileset.UnmarshalXML: `for token != start.End()`: the loop ends at the
\* end tag; a pass handles the token and reads the next one.
TilesetLoopPass ==
    /\ pc = "tileset"
    /\ IF ret.token = "end" /\ ret.err = "nil"
       THEN pc' = "consume" /\ ret' = ret
       ELSE IF ret.err # "nil"
       THEN pc' = "returned" /\ ret' = ret
       ELSE /\ pc' = "tileset"
            /\ ret' = Reading(ret.pos + 1, Token(input.stream, ret.pos + 1),
                              ret.passes + 1, ret.reads + 1)
    /\ UNCHANGED <<quiet, input, cacheVars>>

\* MapTileset.UnmarshalXML, "ensure the element is fully consumed":
\* token, err := d.Token().
ConsumeRead ==
    /\ pc = "consume"
    /\ ret' = Reading(ret.pos + 1, Token(input.stream, ret.pos + 1), ret.passes, ret.reads)
    /\ pc' = "ensure"
    /\ UNCHANGED <<quiet, input, cacheVars>>

\* `for token != start.End()`: the loop ends at the end tag; a pass returns
\* the error if there is one, logs a start element, and reads no token.
EnsureLoopPass ==
    /\ pc = "ensure"
    /\ IF ret.token = "end" /\ ret.err = "nil"
       THEN pc' = "returned" /\ ret' = ret
       ELSE IF ret.err # "nil"
       THEN pc' = "returned" /\ ret' = ret
       ELSE /\ ret.passes < MaxPasses + MaxContent
            /\ pc' = "ensure"
            /\ ret' = [ret EXCEPT !.passes = @ + 1]
    /\ UNCHANGED <<quiet, input, cacheVars>>

NextMapTileset == ReadTilesetAttrs \/ TilesetLoopPass \/ ConsumeRead \/ EnsureLoopPass

SpecMapTileset == InitMapTileset /\ [][NextMapTileset]_vars

\* The decode is scheduled as long as it has a step to take.
SpecMapTilesetLive == SpecMapTileset /\ WF_vars(NextMapTileset)

\* C28: the decode of every <tileset> element whose tileset loads comes to
\* return, without an error, having read the tokens up to the element's
\* end tag and no further.
C28_MapTilesetTerminates ==
    <>(pc = "returned"
         /\ (input.loads => (ret.err = "nil" /\ ret.token = "end"
                               /\ input.stream[ret.pos] = "end")))

\* Every pass of the token loops reads a new token.
C28_EveryPassReads ==
    (pc \in {"tileset", "consume", "ensure", "returned"}) => ret.passes = ret.reads

\* The loop of Tileset.UnmarshalXML alone reads a token in every pass and
\* ends at the end tag.
C28_TilesetLoopReads ==
    /\ pc \in {"tileset", "consume"} => ret.passes = ret.reads
    /\ (pc = "consume" /\ ~input.source) => input.stream[ret.pos] = "end"

\* An external tileset written as an empty element is consumed and returns.
C28_EmptyExternalReturns ==
    (input.source /\ input.loads /\ input.stream[1] = "end") ~>
        (pc = "returned" /\ ret.err = "nil" /\ ret.pos = 1)

\* ------------------------------------------------------------------------
\* Class-typed JSON properties: members by name
\* ------------------------------------------------------------------------

\* The names of the members of a class document, in order.
RECURSIVE memberNames(_, _)
memberNames(toks, pos) ==
    IF toks[pos] = Delim("}") THEN {}
    ELSE IF toks[pos + 1] = Delim("{")
         THEN {toks[pos].v} \cup memberNames(toks, jsonSkip(toks, pos + 1, 0, 0).pos)
    ELSE {toks[pos].v} \cup memberNames(toks, pos + 2)

\* C29: a decode of a class document that succeeds has every member of the
\* document under its own name, with that Name, whether the class defines
\* the member or its type is guessed.
C29_MembersKeptByName ==
    (pc = "class" /\ ret.op = "jsonClass" /\ ret.err = "nil") =>
        \A n \in memberNames(input.toks, 2) :
            /\ n \in DOMAIN ret.props
            /\ ret.props[n].Name = n

\* The same for the members the registered class defines.
C29_RegisteredMembersByName ==
    (pc = "class" /\ ret.op = "jsonClass" /\ ret.err = "nil") =>
        \A n \in DOMAIN CustomTypes(input.class) :
            /\ n \in DOMAIN ret.props
            /\ ret.props[n].Name = n
            /\ ret.props[n].Type = CustomTypes(input.class)[n].Type

\* ------------------------------------------------------------------------
\* IncludePaths across nested loads
\* ------------------------------------------------------------------------

\* filepath.Dir of the absolute paths of the documents.
Dir(abs) ==
    CASE abs = "/maps/level.tmx" -> "/maps"
      [] abs = "/tiles/t.tsx" -> "/tiles"
      [] abs = "/objs/o.tx" -> "/objs"
      [] OTHER -> "/"

\* A reference of a document to an external tileset or template, loaded
\* while the document is decoded.
Ref(op, path) == [op |-> op, path |-> path]
TilesetRefs == {Ref("OpenTileset", "../tiles/t.tsx"), Ref("OpenTileset", "missing.tsx")}
MapRefs == TilesetRefs \cup {Ref("OpenTemplate", "../objs/o.tx")}

\* The documents on disk: the references each makes, in order, and whether
\* its own content fails to decode.
Documents ==
    [refs : UNION {[1 .. n -> MapRefs] : n \in 0 .. 2}, bad : BOOLEAN]
Leaves == [refs : {<<>>}, bad : BOOLEAN]
Templates == [refs : {<<>>} \cup {<<r>> : r \in TilesetRefs}, bad : BOOLEAN]

\* The deferred func of a load that leaves IncludePaths as it is.
popNothing(paths) == paths

\* The deferred func: IncludePaths = IncludePaths[:len(IncludePaths)-1].
popIncludePath(paths) == SubSeq(paths, 1, Len(paths) - 1)

\* A load that has pushed its directory and is decoding: IncludePaths as it
\* was at the call, the references not yet loaded, and the error met.
Frame(op, abs, before, todo) ==
    [op |-> op, abs |-> abs, before |-> before, todo |-> todo, err |-> "nil"]

\* ReadMap, OpenTileset, OpenTemplate up to Decode: an error of FindPath or
\* a cached instance returns at once; else the directory of the document is
\* appended to IncludePaths and the decode begins.
enter(op, path) ==
    LET found == FindPath(path)
        cached == \/ op = "OpenTileset" /\ CacheTileset(tilesets, found.abs).ok
                  \/ op = "OpenTemplate" /\ CacheTemplate(templates, found.abs).ok
    IN  IF found.err # "nil" \/ cached
        THEN [returned |-> TRUE, abs |-> found.abs, err |-> found.err,
              paths |-> IncludePaths, frames |-> active]
        ELSE [returned |-> FALSE, abs |-> found.abs, err |-> "nil",
              paths |-> Append(IncludePaths, Dir(found.abs)),
              frames |-> Append(active,
                                Frame(op, found.abs, IncludePaths, files[found.abs].refs))]

\* The decode of a document after a load it made has returned: it goes on
\* with its next reference, or fails with the error of the load.
resume(frame, err) ==
    IF err = "nil" THEN [frame EXCEPT !.todo = Tail(@)]
    ELSE [frame EXCEPT !.todo = <<>>, !.err = err]

\* What a load returned, with IncludePaths at its call and at its return.
Returned(op, abs, err, before, after, depth) ==
    [op |-> op, abs |-> abs, err |-> err, before |-> before, after |-> after,
     depth |-> depth]

InitPaths ==
    /\ \E map \in Documents, tiles \in Leaves, objs \in Templates :
          files = ("/maps/level.tmx" :> map) @@ ("/tiles/t.tsx" :> tiles)
                  @@ ("/objs/o.tx" :> objs)
    /\ IncludePaths \in {<<>>, <<"/usr/share">>}
    /\ input = [paths |-> IncludePaths]
    /\ active = <<>>
    /\ tilesets = <<>>
    /\ templates = <<>>
    /\ allocated = 0
    /\ decodes = <<>>
    /\ pc = "paths"
    /\ ret = NoCall
    /\ QuietState

\* A caller calls ReadMap, OpenTileset or OpenTemplate with a cache.
BeginLoad ==
    /\ pc = "paths"
    /\ active = <<>>
    /\ allocated < MaxLoads
    /\ \E call \in {Ref("ReadMap", "level.tmx"), Ref("ReadMap", "missing.tsx")} \cup MapRefs :
          LET r == enter(call.op, call.path)
          IN  /\ IncludePaths' = r.paths
              /\ active' = r.frames
              /\ ret' = IF r.returned
                        THEN Returned(call.op, r.abs, r.err, IncludePaths, r.paths, 1)
                        ELSE NoCall
    /\ allocated' = allocated + 1
    /\ UNCHANGED <<quiet, input, pc, tilesets, templates, files, decodes>>

\* The decode of the innermost document meets its next reference and calls
\* OpenTileset or OpenTemplate for it.
NestedLoad ==
    /\ pc = "paths"
    /\ Len(active) > 0
    /\ Len(active[Len(active)].todo) > 0
    /\ LET top == active[Len(active)]
           r == enter(top.todo[1].op, top.todo[1].path)
       IN  /\ IncludePaths' = r.paths
           /\ active' = IF r.returned
                        THEN [active EXCEPT ![Len(active)] = resume(top, r.err)]
                        ELSE r.frames
           /\ ret' = IF r.returned
                     THEN Returned(top.todo[1].op, r.abs, r.err, IncludePaths, r.paths,
                                   Len(active) + 1)
                     ELSE ret
    /\ UNCHANGED <<quiet, input, pc, tilesets, templates, files, allocated, decodes>>

\* The innermost load returns: the deferred func runs, a tileset or template
\* that decoded is added to the cache, and the caller goes on.
ReturnLoad ==
    /\ pc = "paths"
    /\ Len(active) > 0
    /\ Len(active[Len(active)].todo) = 0
    /\ LET top == active[Len(active)]
           err == IF top.err # "nil" THEN top.err
                  ELSE IF files[top.abs].bad THEN "decode" ELSE "nil"
           rest == SubSeq(active, 1, Len(active) - 1)
       IN  /\ IncludePaths' = popIncludePath(IncludePaths)
           /\ active' = IF Len(rest) = 0 THEN rest
                        ELSE [rest EXCEPT ![Len(rest)] = resume(@, err)]
           /\ tilesets' = IF err = "nil" /\ top.op = "OpenTileset"
                          THEN AddTileset(tilesets, top.abs, allocated).m ELSE tilesets
           /\ templates' = IF err = "nil" /\ top.op = "OpenTemplate"
                           THEN AddTemplate(templates, top.abs, allocated).m ELSE templates
           /\ ret' = Returned(top.op, top.abs, err, top.before,
                              popIncludePath(IncludePaths), Len(active))
    /\ UNCHANGED <<quiet, input, pc, files, allocated, decodes>>

NextPaths == BeginLoad \/ NestedLoad \/ ReturnLoad

SpecPaths == InitPaths /\ [][NextPaths]_vars

\* C30: every load, failed ones and nested ones included, returns with
\* IncludePaths as it was at its call; with no load under way IncludePaths
\* is what the caller set; and while loads are under way IncludePaths is
\* that followed by the directories of their documents, outermost first,
\* so the directory of the innermost document is the last entry.
C30_IncludePathsIsAStack ==
    pc = "paths" =>
        /\ ret.op \in {"ReadMap", "OpenTileset", "OpenTemplate"} => ret.after = ret.before
        /\ Len(active) = 0 => IncludePaths = input.paths
        /\ Len(IncludePaths) = Len(input.paths) + Len(active)
        /\ \A i \in DOMAIN active :
              /\ active[i].before = SubSeq(IncludePaths, 1, Len(input.paths) + i - 1)
              /\ IncludePaths[Len(input.paths) + i] = Dir(active[i].abs)

\* A tileset loaded by a template loaded by a map has pushed its directory,
\* failed to decode and returned.
C30_Witness ==
    /\ pc = "paths"
    /\ ret.op = "OpenTileset"
    /\ ret.depth = 3
    /\ ret.err = "decode"
    /\ Len(ret.before) >= 2
    /\ ret.after = ret.before

====
